---- MODULE Spec2Model ----
(***************************************************************************)
(* Model of the diagnosis subsystem of chen1110:                           *)
(*   - DiagnosisAgent.diagnose_training_failure (controller/diagnosis.py)  *)
(*   - DiagnosisDataManager (controller/data_manager.py), call by call and *)
(*     statement by statement under its lock                               *)
(*   - DiagnosisAgent registration, start/stop and the loops of its        *)
(*     threads (controller/diagnosis.py), stop() join by join and one      *)
(*     collector thread call by call                                       *)
(*   - Singleton.singleton_instance (common/utils.py), call by call and    *)
(*     statement by statement for concurrent callers                       *)
(*   - to_json/from_json of WorkerTrainingMetric and DiagnosisAction       *)
(*     (common/diagnosis_data.py)                                          *)
(*   - LatestCheckpointManager and PeriodicCheckpointManager (ckpt_manager)*)
(*   - collect_data of the log, metric and stack collectors                *)
(*     (agent/data_collector)                                              *)
(* Optional values (Python None / a value) are sequences of length 0 / 1.  *)
(***************************************************************************)
EXTENDS Integers, Sequences, FiniteSets, TLC

VARIABLES
    env_node_id,          \* os.environ value of CHEN1110_NODE_ID (Optional string)
    env_node_type,        \* os.environ value of CHEN1110_NODE_TYPE (Optional string)
    diag_call,            \* arguments of the last diagnose_training_failure call
    diag_ret,             \* what that call returned
    json_call,            \* history: the last to_json/from_json round trip and its result
    clock,                \* int(time.time())
    data_retention_time,  \* DiagnosisDataManager._data_retention_time
    heap,                 \* the WorkerTrainingMetric objects constructed so far
    data_store,           \* DiagnosisDataManager._data_store: type name -> deque of metric refs
    recorded,             \* history: per type, the refs passed to store_data since the last clear
    store_call,           \* the query the last data manager call made (None: it was no query)
    store_ret,            \* what that query returned
    data_lock,            \* DiagnosisDataManager._lock: the thread holding it (Optional)
    callers,              \* per calling thread: where it is in its data manager call
    training_log_file,    \* DiagnosisAgent._training_log_file
    stopped,              \* DiagnosisAgent._stopped
    periodical_collectors,\* DiagnosisAgent._periodical_collectors: dict, in insertion order
    collector_threads,    \* DiagnosisAgent._collector_threads: the (collector, interval) of each
    thread_pc,            \* where each thread of collector_threads is in its loop
    report_thread,        \* DiagnosisAgent._report_thread (Optional index into report_pc)
    report_pc,            \* where each heartbeat thread started so far is in its loop
    register_log,         \* history: the caller's register_periodical_data_collector calls
    start_calls,          \* history: number of start() calls
    stop_calls,           \* history: number of stop() calls
    last_event,           \* history: what the last tick of a thread did (Optional)
    stopper,              \* where the thread that called stop() is in it
    focus,                \* the collector thread followed call by call (0: none)
    tick_calls,           \* history: the collector methods that thread called in its current cycle
    tick_log,             \* history: what each of its finished ticks did
    instances,            \* Singleton._instances: dict class -> instance, in insertion order
    constructions,        \* history: the constructor calls made by singleton_instance
    single_calls,         \* history: the singleton_instance calls and what they returned
    instance_lock,        \* Singleton._instance_lock: dict class -> lock object
    single_threads,       \* the threads inside singleton_instance: where each is
    max_checkpoints,      \* LatestCheckpointManager._max_checkpoints
    ckpt_dir,             \* the checkpoint files: step -> saved state
    latest_checkpoint_path, \* LatestCheckpointManager._latest_checkpoint_path (Optional step)
    save_interval,        \* PeriodicCheckpointManager._save_interval
    last_saved_step,      \* PeriodicCheckpointManager._last_saved_step
    ckpt_call,            \* history: the last checkpoint manager call and what it returned
    log_lines,            \* the training log file: Optional sequence of lines
    last_position,        \* LogCollector._last_position
    metric_port,          \* MetricCollector._metric_port (Optional)
    collect_call          \* history: the last collect_data call and what it returned

diag_vars == <<env_node_id, env_node_type, diag_call, diag_ret, json_call>>
store_vars == <<clock, data_retention_time, heap, data_store, recorded, store_call, store_ret>>
lock_vars == <<data_lock, callers>>
agent_vars == <<training_log_file, stopped, periodical_collectors, collector_threads,
                thread_pc, report_thread, report_pc, register_log, start_calls, stop_calls,
                last_event>>
stop_vars == <<stopper>>
tick_vars == <<focus, tick_calls, tick_log>>
single_vars == <<instances, constructions, single_calls, instance_lock, single_threads>>
ckpt_vars == <<max_checkpoints, ckpt_dir, latest_checkpoint_path, save_interval,
               last_saved_step, ckpt_call>>
collect_vars == <<log_lines, last_position, metric_port, collect_call>>
ext_vars == <<stop_vars, tick_vars, single_vars, ckpt_vars, collect_vars>>
vars == <<env_node_id, env_node_type, diag_call, diag_ret, json_call, clock,
          data_retention_time, heap, data_store, recorded, store_call, store_ret, data_lock, callers,
          training_log_file, stopped, periodical_collectors, collector_threads,
          thread_pc, report_thread, report_pc, register_log, start_calls, stop_calls,
          last_event, stopper, focus, tick_calls, tick_log, instances, constructions,
          single_calls, instance_lock, single_threads, max_checkpoints, ckpt_dir,
          latest_checkpoint_path, save_interval, last_saved_step, ckpt_call, log_lines,
          last_position, metric_port, collect_call>>

None == <<>>
Some(x) == <<x>>
Min(a, b) == IF a < b THEN a ELSE b
Max(a, b) == IF a > b THEN a ELSE b

(***************************************************************************)
(* Bounds of the model.                                                    *)
(***************************************************************************)
MaxRestartCount == 4     \* restart_count ranges over -MaxRestartCount..MaxRestartCount
MaxConfigured == 4       \* the threshold the caller has configured ranges over 0..MaxConfigured
MaxTime == 3             \* the clock and the caller-supplied timestamps range up to MaxTime
MaxRetention == 1        \* data_retention_time ranges over 1..MaxRetention
MaxMetrics == 2          \* WorkerTrainingMetric objects constructed in one run
MaxRecorded == 2         \* store_data calls on one partition between two clears
MaxRegisterCalls == 2    \* register_periodical_data_collector calls of the caller
MaxStarts == 2           \* start() calls on the agent
MaxStops == 2            \* stop() calls on the agent

(***************************************************************************)
(* common/constants.py, common/utils.py                                    *)
(***************************************************************************)
RESTART_WORKER == "RESTART_WORKER"
RELAUNCH_WORKER == "RELAUNCH_WORKER"
NO_ACTION == "NO_ACTION"
LOCAL_INSTANCE == "local"

\* The environment strings the model draws from, and Python's int() on them:
\* int("7") = 7, int("-1") = -1 (the default), int("worker-7") raises ValueError.
EnvStrings == {"7", "worker-7"}
IsIntString(s) == s \in {"7", "-1"}
IntOfString(s) == IF s = "7" THEN 7 ELSE -1

\* os.getenv(key, default)
get_env(value, default) == IF value = None THEN default ELSE value[1]

get_node_id(env) ==
    LET node_id_str == get_env(env, "-1")
    IN  IF IsIntString(node_id_str) THEN IntOfString(node_id_str) ELSE -1

get_node_type(env) == get_env(env, "worker")

(***************************************************************************)
(* common/diagnosis_data.py                                                *)
(***************************************************************************)
NodeAction(node_id, node_type, instance, action_type, reason) ==
    [class |-> "NodeAction", action_type |-> action_type, node_id |-> Some(node_id),
     node_type |-> Some(node_type), instance |-> instance, reason |-> reason]

NoAction ==
    [class |-> "NoAction", action_type |-> NO_ACTION, node_id |-> None,
     node_type |-> None, instance |-> "", reason |-> ""]

(***************************************************************************)
(* controller/diagnosis.py: DiagnosisAgent.diagnose_training_failure       *)
(***************************************************************************)
max_restarts == 3

\* The failure keys of DiagnosisErrorConstant the model builds evidence from.
FailureKeys == {"NODE_FAILED", "OOM_ERROR"}
\* failures: None, or a dict (its key set).
Evidence == {None} \cup {Some(s) : s \in SUBSET FailureKeys}

diagnose_training_failure_off_by_one(failures, restart_count, nid_env, ntype_env) ==
    IF restart_count <= max_restarts
    THEN NodeAction(get_node_id(nid_env), get_node_type(ntype_env), LOCAL_INSTANCE,
                    RESTART_WORKER, "Training process failed, restarting worker")
    ELSE NodeAction(get_node_id(nid_env), get_node_type(ntype_env), LOCAL_INSTANCE,
                    RELAUNCH_WORKER, "Max restart attempts reached, relaunching node")

diagnose_training_failure_no_evidence(failures, restart_count, nid_env, ntype_env) ==
    LET fs == IF failures = None THEN {} ELSE failures[1]
    IN  IF fs = {} THEN NoAction
        ELSE IF restart_count < max_restarts
        THEN NodeAction(get_node_id(nid_env), get_node_type(ntype_env), LOCAL_INSTANCE,
                        RESTART_WORKER, "Training process failed, restarting worker")
        ELSE NodeAction(get_node_id(nid_env), get_node_type(ntype_env), LOCAL_INSTANCE,
                        RELAUNCH_WORKER, "Max restart attempts reached, relaunching node")

diagnose_training_failure(failures, restart_count, nid_env, ntype_env) ==
    LET fs == IF failures = None THEN {} ELSE failures[1]
        logged == Cardinality(fs)
    IN  IF restart_count < max_restarts
        THEN NodeAction(get_node_id(nid_env), get_node_type(ntype_env), LOCAL_INSTANCE,
                        RESTART_WORKER, "Training process failed, restarting worker")
        ELSE NodeAction(get_node_id(nid_env), get_node_type(ntype_env), LOCAL_INSTANCE,
                        RELAUNCH_WORKER, "Max restart attempts reached, relaunching node")

Diagnose_stopping(failures, restart_count, configured) ==
    /\ diag_call' = Some([failures |-> failures, restart_count |-> restart_count,
                          configured |-> configured,
                          node_id_env |-> env_node_id, node_type_env |-> env_node_type])
    /\ diag_ret' = Some(diagnose_training_failure(failures, restart_count,
                                                  env_node_id, env_node_type))
    /\ stopped' = TRUE
    /\ UNCHANGED <<env_node_id, env_node_type, json_call>>
    /\ UNCHANGED <<training_log_file, periodical_collectors, collector_threads, thread_pc,
                   report_thread, report_pc, register_log, start_calls, stop_calls,
                   last_event>>
    /\ UNCHANGED <<store_vars, lock_vars, ext_vars>>

\* A caller that holds a configured threshold (configured) calls
\* diagnose_training_failure(failures, restart_count); the signature has no
\* parameter through which the threshold could be passed.
Diagnose(failures, restart_count, configured) ==
    /\ diag_call' = Some([failures |-> failures, restart_count |-> restart_count,
                          configured |-> configured,
                          node_id_env |-> env_node_id, node_type_env |-> env_node_type])
    /\ diag_ret' = Some(diagnose_training_failure(failures, restart_count,
                                                  env_node_id, env_node_type))
    /\ UNCHANGED <<env_node_id, env_node_type, json_call>>
    /\ UNCHANGED <<store_vars, lock_vars, agent_vars, ext_vars>>

\* The process environment is set by the launcher between calls.
SetEnv(nid, ntype) ==
    /\ env_node_id' = nid
    /\ env_node_type' = ntype
    /\ UNCHANGED <<diag_call, diag_ret, json_call>>
    /\ UNCHANGED <<store_vars, lock_vars, agent_vars, ext_vars>>

StoreIdle ==
    /\ clock = 1
    /\ data_retention_time = 1
    /\ heap = <<>>
    /\ data_store = <<>>
    /\ recorded = <<>>
    /\ store_call = None
    /\ store_ret = None

\* The threads that call the data manager, none of them inside a call.
Threads == {"t1", "t2"}
Idle == [pc |-> "idle", call |-> None, before |-> None, ret |-> None]

LockIdle ==
    /\ data_lock = None
    /\ callers = [th \in Threads |-> Idle]

\* Nobody is in stop().
StopIdle == stopper = [pc |-> "idle", k |-> 0]

\* No thread is followed call by call.
TickIdle ==
    /\ focus = 0
    /\ tick_calls = <<>>
    /\ tick_log = <<>>

\* No class has a singleton instance.
SingleIdle ==
    /\ instances = <<>>
    /\ constructions = <<>>
    /\ single_calls = <<>>
    /\ instance_lock = <<>>
    /\ single_threads = <<>>

\* No checkpoint manager is used (the fields have the defaults of __init__).
CkptIdle ==
    /\ max_checkpoints = 3
    /\ ckpt_dir = <<>>
    /\ latest_checkpoint_path = None
    /\ save_interval = 1000
    /\ last_saved_step = -1
    /\ ckpt_call = None

\* No collector is called directly.
CollectIdle ==
    /\ log_lines = None
    /\ last_position = 0
    /\ metric_port = None
    /\ collect_call = None

ExtIdle == StopIdle /\ TickIdle /\ SingleIdle /\ CkptIdle /\ CollectIdle

\* DiagnosisAgent(): no collector registered, no thread started.
AgentIdle ==
    /\ training_log_file = ""
    /\ stopped = FALSE
    /\ periodical_collectors = <<>>
    /\ collector_threads = <<>>
    /\ thread_pc = <<>>
    /\ report_thread = None
    /\ report_pc = <<>>
    /\ register_log = <<>>
    /\ start_calls = 0
    /\ stop_calls = 0
    /\ last_event = None

DiagIdle ==
    /\ env_node_id = None
    /\ env_node_type = None
    /\ diag_call = None
    /\ diag_ret = None
    /\ json_call = None

InitDiag == DiagIdle /\ StoreIdle /\ LockIdle /\ AgentIdle /\ ExtIdle

NextDiag ==
    \/ \E f \in Evidence, c \in (-MaxRestartCount)..MaxRestartCount, m \in 0..MaxConfigured :
          Diagnose(f, c, m)
    \/ \E nid \in {None} \cup {Some(s) : s \in EnvStrings},
          ntype \in {None, Some("master")} :
          SetEnv(nid, ntype)

SpecDiag == InitDiag /\ [][NextDiag]_vars

(***************************************************************************)
(* controller/data_manager.py: DiagnosisDataManager                        *)
(* Every public method runs under self._lock, so each is one atomic step.  *)
(***************************************************************************)
DataTypes == {"RESOURCE_STATS", "TRAINING_LOG"}
NodeIds == {0, 1}
\* node_id of a WorkerTrainingMetric constructed without one
DefaultNodeId == -1
Timestamps == 0..MaxTime
\* limit arguments of get_data, the negative ones included
Limits == (-1)..(MaxRecorded + 1)
NodeFilters == {None} \cup {Some(n) : n \in NodeIds}

\* WorkerTrainingMetric(data_type, data_content, node_id, timestamp); given is
\* the timestamp the constructor was called with (history).
WorkerTrainingMetric(data_type, node_id, timestamp) ==
    [data_type |-> data_type, node_id |-> node_id, timestamp |-> timestamp,
     given |-> timestamp]

\* Python's data_list[start:]
PySliceFrom(list, start) ==
    LET n == Len(list)
        s == IF start < 0 THEN Max(n + start, 0) ELSE Min(start, n)
    IN  SubSeq(list, s + 1, n)

PopExpired_never(dq, h, cutoff_time) == dq

PopExpired_anywhere(dq, h, cutoff_time) ==
    SelectSeq(dq, LAMBDA d : h[d].timestamp >= cutoff_time)

\* The while loop of _clean_old_data: popleft while the front is older than cutoff.
RECURSIVE PopExpired(_, _, _)
PopExpired(dq, h, cutoff_time) ==
    IF dq = <<>> THEN dq
    ELSE IF h[Head(dq)].timestamp < cutoff_time
         THEN PopExpired(Tail(dq), h, cutoff_time)
         ELSE dq

clean_old_data_whole(ds, h, data_type, current_time, retention) ==
    IF data_type \notin DOMAIN ds THEN ds ELSE [ds EXCEPT ![data_type] = <<>>]

\* _clean_old_data(data_type): nothing for a type without partition.
clean_old_data(ds, h, data_type, current_time, retention) ==
    IF data_type \notin DOMAIN ds THEN ds
    ELSE LET cutoff_time == current_time - retention
         IN  [ds EXCEPT ![data_type] = PopExpired(@, h, cutoff_time)]

\* "Add timestamp if not set": data.timestamp = int(time.time()) when it is 0.
StampAlways(h, m, now) == [h EXCEPT ![m].timestamp = now]

Stamp(h, m, now) ==
    IF h[m].timestamp = 0 THEN [h EXCEPT ![m].timestamp = now] ELSE h

\* store_data on metric object m of heap h (already stamped); the clean pass
\* reads the clock again (current_time).
store_data_appendleft(ds, h, m, current_time, retention) ==
    LET data_type == h[m].data_type
        ds1 == [t \in DOMAIN ds \cup {data_type} |->
                    IF t \in DOMAIN ds THEN ds[t] ELSE <<>>]
        ds2 == [ds1 EXCEPT ![data_type] = <<m>> \o @]
    IN  clean_old_data(ds2, h, data_type, current_time, retention)

store_data(ds, h, m, current_time, retention) ==
    LET data_type == h[m].data_type
        ds1 == [t \in DOMAIN ds \cup {data_type} |->
                    IF t \in DOMAIN ds THEN ds[t] ELSE <<>>]
        ds2 == [ds1 EXCEPT ![data_type] = Append(@, m)]
    IN  clean_old_data(ds2, h, data_type, current_time, retention)

get_data(ds, h, data_type, node_id, limit) ==
    IF data_type \notin DOMAIN ds THEN <<>>
    ELSE LET data_list == ds[data_type]
             filtered == IF node_id # None
                         THEN SelectSeq(data_list, LAMBDA d : h[d].node_id = node_id[1])
                         ELSE data_list
         IN  PySliceFrom(filtered, -limit)

get_latest_data_first(ds, h, data_type, node_id) ==
    LET data_list == get_data(ds, h, data_type, node_id, MaxRecorded + 1)
    IN  IF data_list # <<>> THEN Some(data_list[1]) ELSE None

get_latest_data(ds, h, data_type, node_id) ==
    LET data_list == get_data(ds, h, data_type, node_id, 1)
    IN  IF data_list # <<>> THEN Some(data_list[1]) ELSE None

get_data_count_sentinel(ds, data_type) ==
    IF data_type \notin DOMAIN ds THEN -1 ELSE Len(ds[data_type])

get_data_count(ds, data_type) ==
    IF data_type \notin DOMAIN ds THEN 0 ELSE Len(ds[data_type])

clear_data_every_partition(ds, data_type) ==
    IF data_type = None THEN <<>>
    ELSE IF data_type[1] \in DOMAIN ds THEN <<>>
    ELSE ds

clear_data(ds, data_type) ==
    IF data_type = None THEN <<>>
    ELSE IF data_type[1] \in DOMAIN ds THEN [ds EXCEPT ![data_type[1]] = <<>>]
    ELSE ds

\* History kept beside the store: the refs recorded per partition since its
\* last clear.
Note(hist, data_type, v) ==
    [t \in DOMAIN hist \cup {data_type} |-> IF t = data_type THEN v ELSE hist[t]]

RecordedOf(data_type) == IF data_type \in DOMAIN recorded THEN recorded[data_type] ELSE <<>>

\* store_data(data) for the metric object m of heap h: stamp at the clock,
\* append, clean at current_time (the clock may have ticked in between).
StoreOn(h, m, current_time) ==
    LET h1 == Stamp(h, m, clock)
        data_type == h[m].data_type
    IN  /\ Len(RecordedOf(data_type)) < MaxRecorded
        /\ heap' = h1
        /\ data_store' = store_data(data_store, h1, m, current_time, data_retention_time)
        /\ recorded' = Note(recorded, data_type, Append(RecordedOf(data_type), m))
        /\ clock' = current_time
        /\ store_call' = None
        /\ store_ret' = None
        /\ UNCHANGED data_retention_time
        /\ UNCHANGED <<diag_vars, lock_vars, agent_vars, ext_vars>>

\* A caller constructs a metric and stores it.
StoreNew(data_type, node_id, timestamp, current_time) ==
    /\ Len(heap) < MaxMetrics
    /\ StoreOn(Append(heap, WorkerTrainingMetric(data_type, node_id, timestamp)),
               Len(heap) + 1, current_time)

\* A caller stores a metric object it stored before.
StoreAgain(m, current_time) ==
    /\ m \in 1..Len(heap)
    /\ StoreOn(heap, m, current_time)

ClearData(data_type) ==
    /\ data_store' = clear_data(data_store, data_type)
    /\ recorded' = clear_data(recorded, data_type)
    /\ store_call' = None
    /\ store_ret' = None
    /\ UNCHANGED <<clock, data_retention_time, heap>>
    /\ UNCHANGED <<diag_vars, lock_vars, agent_vars, ext_vars>>

\* One second passes.
Tick ==
    /\ clock < MaxTime
    /\ clock' = clock + 1
    /\ UNCHANGED <<data_retention_time, heap, data_store, recorded, store_call, store_ret>>
    /\ UNCHANGED <<diag_vars, lock_vars, agent_vars, ext_vars>>

\* The read-only calls: each records its arguments and its return value.
GetData(data_type, node_id, limit) ==
    /\ store_call' = Some([op |-> "get_data", data_type |-> data_type,
                           node_id |-> node_id, limit |-> limit])
    /\ store_ret' = Some(get_data(data_store, heap, data_type, node_id, limit))
    /\ UNCHANGED <<clock, data_retention_time, heap, data_store, recorded>>
    /\ UNCHANGED <<diag_vars, lock_vars, agent_vars, ext_vars>>

GetLatestData(data_type, node_id) ==
    /\ store_call' = Some([op |-> "get_latest_data", data_type |-> data_type,
                           node_id |-> node_id])
    /\ store_ret' = Some(get_latest_data(data_store, heap, data_type, node_id))
    /\ UNCHANGED <<clock, data_retention_time, heap, data_store, recorded>>
    /\ UNCHANGED <<diag_vars, lock_vars, agent_vars, ext_vars>>

GetDataCount(data_type) ==
    /\ store_call' = Some([op |-> "get_data_count", data_type |-> data_type])
    /\ store_ret' = Some(get_data_count(data_store, data_type))
    /\ UNCHANGED <<clock, data_retention_time, heap, data_store, recorded>>
    /\ UNCHANGED <<diag_vars, lock_vars, agent_vars, ext_vars>>

\* DiagnosisDataManager(data_retention_time)
InitStore ==
    /\ DiagIdle
    /\ LockIdle
    /\ AgentIdle
    /\ ExtIdle
    /\ clock = 1
    /\ data_retention_time \in 1..MaxRetention
    /\ heap = <<>>
    /\ data_store = <<>>
    /\ recorded = <<>>
    /\ store_call = None
    /\ store_ret = None

\* The partition followed through time; several partitions side by side are
\* followed within one second (NextQuery) and under the lock (NextLock).
StoredType == "RESOURCE_STATS"

\* Recording, clearing and the passing of time: metrics of the default node
\* and of one type, with any caller-supplied timestamp.
NextStore ==
    \/ \E ts \in Timestamps, t2 \in clock..Min(clock + 1, MaxTime) :
          StoreNew(StoredType, DefaultNodeId, ts, t2)
    \/ \E m \in 1..Len(heap), t2 \in clock..Min(clock + 1, MaxTime) : StoreAgain(m, t2)
    \/ \E dt \in {None, Some(StoredType)} : ClearData(dt)
    \/ Tick

\* Recording, clearing and querying within one second: unstamped metrics of
\* several nodes, and every query with every argument.
NextQuery ==
    \/ \E dt \in DataTypes, n \in NodeIds : StoreNew(dt, n, 0, clock)
    \/ \E m \in 1..Len(heap) : StoreAgain(m, clock)
    \/ \E dt \in {None} \cup {Some(t) : t \in DataTypes} : ClearData(dt)
    \/ \E dt \in DataTypes, f \in NodeFilters, limit \in Limits : GetData(dt, f, limit)
    \/ \E dt \in DataTypes, f \in NodeFilters : GetLatestData(dt, f)
    \/ \E dt \in DataTypes : GetDataCount(dt)

\* Within one second the retention window plays no part: one value of it.
InitQuery == InitStore /\ data_retention_time = MaxRetention

SpecQuery == InitQuery /\ [][NextQuery]_vars

SpecStore == InitStore /\ [][NextStore]_vars


(***************************************************************************)
(* controller/data_manager.py, statement by statement: the calls of        *)
(* several threads interleave, each between taking and releasing _lock.    *)
(* Within one second: every metric is constructed with timestamp 0.        *)
(***************************************************************************)
LockFree_always(l) == TRUE

\* threading.Lock: "with self._lock" is entered only while no thread holds it.
LockFree(l) == l = None

Inside(th) == callers[th].pc \notin {"idle", "acquire"}
CallOf(th) == callers[th].call[1]

\* A thread constructs a metric and calls store_data(data).
CallStore(th, data_type) ==
    /\ callers[th].pc = "idle"
    /\ Len(heap) < MaxMetrics
    /\ heap' = Append(heap, WorkerTrainingMetric(data_type, DefaultNodeId, 0))
    /\ callers' = [callers EXCEPT ![th] =
                      [pc |-> "acquire", before |-> None, ret |-> None,
                       call |-> Some([op |-> "store_data", data_type |-> Some(data_type),
                                      m |-> Len(heap) + 1])]]
    /\ UNCHANGED <<clock, data_retention_time, data_store, recorded, store_call, store_ret>>
    /\ UNCHANGED data_lock
    /\ UNCHANGED <<diag_vars, agent_vars, ext_vars>>

\* A thread calls get_data(data_type), get_latest_data(data_type),
\* get_data_count(data_type) or clear_data(data_type) (None: clear_data()).
CallOther(th, op, data_type) ==
    /\ callers[th].pc = "idle"
    /\ callers' = [callers EXCEPT ![th] =
                      [pc |-> "acquire", before |-> None, ret |-> None,
                       call |-> Some([op |-> op, data_type |-> data_type, m |-> 0])]]
    /\ UNCHANGED store_vars
    /\ UNCHANGED data_lock
    /\ UNCHANGED <<diag_vars, agent_vars, ext_vars>>

\* with self._lock: the store as the call finds it is kept as history (before).
Acquire(th) ==
    /\ callers[th].pc = "acquire"
    /\ LockFree(data_lock)
    /\ data_lock' = Some(th)
    /\ callers' = [callers EXCEPT ![th].pc =
                      IF CallOf(th).op = "store_data" THEN "check" ELSE "body",
                                  ![th].before = Some([data_store |-> data_store,
                                                       heap |-> heap])]
    /\ UNCHANGED store_vars
    /\ UNCHANGED <<diag_vars, agent_vars, ext_vars>>

\* if data_type not in self._data_store:
StoreCheck(th) ==
    /\ callers[th].pc = "check"
    /\ callers' = [callers EXCEPT ![th].pc =
                      IF CallOf(th).data_type[1] \notin DOMAIN data_store
                      THEN "create" ELSE "stamp"]
    /\ UNCHANGED store_vars
    /\ UNCHANGED data_lock
    /\ UNCHANGED <<diag_vars, agent_vars, ext_vars>>

\* self._data_store[data_type] = deque()
StoreCreate(th) ==
    /\ callers[th].pc = "create"
    /\ data_store' = [t \in DOMAIN data_store \cup {CallOf(th).data_type[1]} |->
                         IF t = CallOf(th).data_type[1] THEN <<>> ELSE data_store[t]]
    /\ callers' = [callers EXCEPT ![th].pc = "stamp"]
    /\ UNCHANGED <<clock, data_retention_time, heap, recorded, store_call, store_ret>>
    /\ UNCHANGED data_lock
    /\ UNCHANGED <<diag_vars, agent_vars, ext_vars>>

\* if data.timestamp == 0: data.timestamp = int(time.time())
StoreStamp(th) ==
    /\ callers[th].pc = "stamp"
    /\ heap' = Stamp(heap, CallOf(th).m, clock)
    /\ callers' = [callers EXCEPT ![th].pc = "append"]
    /\ UNCHANGED <<clock, data_retention_time, data_store, recorded, store_call, store_ret>>
    /\ UNCHANGED data_lock
    /\ UNCHANGED <<diag_vars, agent_vars, ext_vars>>

\* self._data_store[data_type].append(data); the lookup raises KeyError, which
\* leaves the with block, when the partition is gone.
StoreAppend(th) ==
    LET data_type == CallOf(th).data_type[1]
    IN  /\ callers[th].pc = "append"
        /\ IF data_type \in DOMAIN data_store
           THEN /\ data_store' = [data_store EXCEPT ![data_type] = Append(@, CallOf(th).m)]
                /\ callers' = [callers EXCEPT ![th].pc = "clean"]
                /\ UNCHANGED data_lock
           ELSE /\ callers' = [callers EXCEPT ![th].pc = "idle",
                                              ![th].ret = Some("KeyError")]
                /\ data_lock' = None
                /\ UNCHANGED data_store
        /\ UNCHANGED <<clock, data_retention_time, heap, recorded, store_call, store_ret>>
        /\ UNCHANGED <<diag_vars, agent_vars, ext_vars>>

\* self._clean_old_data(data_type), and the end of the with block.
StoreClean(th) ==
    LET data_type == CallOf(th).data_type[1]
    IN  /\ callers[th].pc = "clean"
        /\ data_store' = clean_old_data(data_store, heap, data_type, clock,
                                        data_retention_time)
        /\ recorded' = Note(recorded, data_type, Append(RecordedOf(data_type), CallOf(th).m))
        /\ callers' = [callers EXCEPT ![th].pc = "idle", ![th].ret = Some("None")]
        /\ data_lock' = None
        /\ UNCHANGED <<clock, data_retention_time, heap, store_call, store_ret>>
        /\ UNCHANGED <<diag_vars, agent_vars, ext_vars>>

\* What the body of a query or of clear_data returns, and the store it leaves.
BodyRet(op, ds, h, data_type) ==
    CASE op = "get_data" -> get_data(ds, h, data_type[1], None, MaxMetrics + 1)
      [] op = "get_latest_data" -> get_latest_data(ds, h, data_type[1], None)
      [] op = "get_data_count" -> get_data_count(ds, data_type[1])
      [] op = "clear_data" -> "None"

BodyStore(op, ds, data_type) == IF op = "clear_data" THEN clear_data(ds, data_type) ELSE ds

\* The body of get_data, get_latest_data, get_data_count or clear_data, and the
\* end of its with block.
Body(th) ==
    /\ callers[th].pc = "body"
    /\ data_store' = BodyStore(CallOf(th).op, data_store, CallOf(th).data_type)
    /\ recorded' = BodyStore(CallOf(th).op, recorded, CallOf(th).data_type)
    /\ callers' = [callers EXCEPT ![th].pc = "idle",
                                  ![th].ret = Some(BodyRet(CallOf(th).op, data_store, heap,
                                                           CallOf(th).data_type))]
    /\ data_lock' = None
    /\ UNCHANGED <<clock, data_retention_time, heap, store_call, store_ret>>
    /\ UNCHANGED <<diag_vars, agent_vars, ext_vars>>

Queries == {"get_data", "get_latest_data", "get_data_count"}
\* The partition the concurrent readers ask for; writers use every type.
QueriedType == "RESOURCE_STATS"

NextLock ==
    \/ \E th \in Threads, dt \in DataTypes : CallStore(th, dt)
    \/ \E th \in Threads, op \in Queries : CallOther(th, op, Some(QueriedType))
    \/ \E th \in Threads, dt \in {None} \cup {Some(t) : t \in DataTypes} :
          CallOther(th, "clear_data", dt)
    \/ \E th \in Threads : Acquire(th)
    \/ \E th \in Threads : StoreCheck(th)
    \/ \E th \in Threads : StoreCreate(th)
    \/ \E th \in Threads : StoreStamp(th)
    \/ \E th \in Threads : StoreAppend(th)
    \/ \E th \in Threads : StoreClean(th)
    \/ \E th \in Threads : Body(th)

SpecLock == InitQuery /\ [][NextLock]_vars

(***************************************************************************)
(* controller/diagnosis.py: DiagnosisAgent, registration and lifecycle.    *)
(* A dict is the sequence of its (key, value) items in insertion order.    *)
(***************************************************************************)
MIN_DATA_COLLECT_INTERVAL == 30

\* A DataCollector instance: its class and which instance of it.
Collector(cls, id) == [cls |-> cls, id |-> id]
\* The collector instances the caller owns, and the intervals it asks for.
UserCollectors == {Collector("UserCollector", 1), Collector("UserCollector", 2)}
Intervals == {29, 30, 31}

DictHas(d, key) == \E i \in DOMAIN d : d[i].collector = key
DictGet(d, key) == d[CHOOSE i \in DOMAIN d : d[i].collector = key].time_interval

DictSet_append(d, key, value) == Append(d, [collector |-> key, time_interval |-> value])

\* d[key] = value: an existing key keeps its place, a new one goes last.
DictSet(d, key, value) ==
    IF DictHas(d, key)
    THEN [i \in DOMAIN d |-> IF d[i].collector = key
                             THEN [collector |-> key, time_interval |-> value]
                             ELSE d[i]]
    ELSE Append(d, [collector |-> key, time_interval |-> value])

ClampInterval_off(time_interval) == time_interval

\* if time_interval < MIN_DATA_COLLECT_INTERVAL: time_interval = MIN_DATA_COLLECT_INTERVAL
ClampInterval(time_interval) ==
    IF time_interval < MIN_DATA_COLLECT_INTERVAL
    THEN MIN_DATA_COLLECT_INTERVAL
    ELSE time_interval

register_periodical_data_collector(registry, collector, time_interval) ==
    DictSet(registry, collector, ClampInterval(time_interval))

\* _setup_default_collectors: new collector instances (instance number n) at
\* their intervals, the LogCollector only when a log file is configured.
setup_default_collectors(registry, log_file, n) ==
    LET r1 == register_periodical_data_collector(registry, Collector("ResourceCollector", n), 30)
        r2 == register_periodical_data_collector(r1, Collector("MetricCollector", n), 60)
        r3 == IF log_file # ""
              THEN register_periodical_data_collector(r2, Collector("LogCollector", n), 60)
              ELSE r2
    IN  register_periodical_data_collector(r3, Collector("StackCollector", n), 120)

start_data_collection_twice(registry) == registry \o registry

\* _start_data_collection: one thread per item of the registry, with the
\* item's collector and interval as its arguments.
start_data_collection(registry) == registry

Register_spawning(collector, time_interval) ==
    /\ periodical_collectors' =
           register_periodical_data_collector(periodical_collectors, collector, time_interval)
    /\ register_log' = Append(register_log,
                              [collector |-> collector, time_interval |-> time_interval])
    /\ collector_threads' =
           IF start_calls > 0
           THEN Append(collector_threads,
                       [collector |-> collector, time_interval |-> ClampInterval(time_interval)])
           ELSE collector_threads
    /\ thread_pc' = IF start_calls > 0 THEN Append(thread_pc, "loop") ELSE thread_pc
    /\ UNCHANGED <<training_log_file, stopped, report_thread, report_pc, start_calls,
                   stop_calls, last_event>>
    /\ UNCHANGED <<diag_vars, store_vars, lock_vars, ext_vars>>

\* The caller registers one of its collectors.
Register(collector, time_interval) ==
    /\ periodical_collectors' =
           register_periodical_data_collector(periodical_collectors, collector, time_interval)
    /\ register_log' = Append(register_log,
                              [collector |-> collector, time_interval |-> time_interval])
    /\ UNCHANGED <<training_log_file, stopped, collector_threads, thread_pc, report_thread,
                   report_pc, start_calls, stop_calls, last_event>>
    /\ UNCHANGED <<diag_vars, store_vars, lock_vars, ext_vars>>

\* start(): default collectors, a thread per registered collector, the
\* heartbeat thread, and last of all _stopped = False.
StartAgent ==
    LET registry == setup_default_collectors(periodical_collectors, training_log_file,
                                             start_calls + 1)
        spawned == start_data_collection(registry)
    IN  /\ periodical_collectors' = registry
        /\ collector_threads' = collector_threads \o spawned
        /\ thread_pc' = thread_pc \o [i \in DOMAIN spawned |-> "loop"]
        /\ report_pc' = Append(report_pc, "loop")
        /\ report_thread' = Some(Len(report_pc) + 1)
        /\ stopped' = FALSE
        /\ start_calls' = start_calls + 1
        /\ UNCHANGED <<training_log_file, register_log, stop_calls, last_event>>
        /\ UNCHANGED <<diag_vars, store_vars, lock_vars, ext_vars>>

StopAgent_toggle ==
    /\ stopped' = ~stopped
    /\ stop_calls' = stop_calls + 1
    /\ UNCHANGED <<training_log_file, periodical_collectors, collector_threads, thread_pc,
                   report_thread, report_pc, register_log, start_calls, last_event>>
    /\ UNCHANGED <<diag_vars, store_vars, lock_vars, ext_vars>>

\* stop(): _stopped = True, then join(timeout=5) on the heartbeat thread (when
\* there is one) and on every collector thread; a join changes no field.
StopAgent ==
    /\ stopped' = TRUE
    /\ stop_calls' = stop_calls + 1
    /\ UNCHANGED <<training_log_file, periodical_collectors, collector_threads, thread_pc,
                   report_thread, report_pc, register_log, start_calls, last_event>>
    /\ UNCHANGED <<diag_vars, store_vars, lock_vars, ext_vars>>

\* DiagnosisAgent(training_log_file=...)
InitAgent ==
    /\ DiagIdle
    /\ StoreIdle
    /\ LockIdle
    /\ ExtIdle
    /\ training_log_file \in {"", "train.log"}
    /\ stopped = FALSE
    /\ periodical_collectors = <<>>
    /\ collector_threads = <<>>
    /\ thread_pc = <<>>
    /\ report_thread = None
    /\ report_pc = <<>>
    /\ register_log = <<>>
    /\ start_calls = 0
    /\ stop_calls = 0
    /\ last_event = None

NextAgent ==
    \/ \E c \in UserCollectors, t \in Intervals :
          Len(register_log) < MaxRegisterCalls /\ Register(c, t)
    \/ start_calls < MaxStarts /\ StartAgent
    \/ stop_calls < MaxStops /\ StopAgent

SpecAgent == InitAgent /\ [][NextAgent]_vars

(***************************************************************************)
(* controller/diagnosis.py: the loops of the threads of a started agent.   *)
(* A thread is at "loop" (about to test _stopped), at "sleep" (inside      *)
(* time.sleep), "blocked" (inside a collect_data that never returns) or    *)
(* "exited".                                                               *)
(***************************************************************************)
\* What one tick of a collector can do: is_enabled() is False ("disabled") or
\* raises, collect_data() raises, never returns ("blocks") or returns None
\* ("empty"), store_data(data) raises or returns ("stored").
Raises == {"is_enabled_raises", "collect_raises", "store_raises"}
TickOutcomes == Raises \cup {"disabled", "empty", "stored", "blocks"}

\* By class: a ResourceCollector is always enabled and returns None from
\* collect_data (resource_collector.py); a MetricCollector or a LogCollector
\* is enabled or not and stores the string it collects; a StackCollector is
\* always enabled, catches its own errors and stores a dict; a collector of
\* the caller can do anything.
Outcomes(cls) ==
    CASE cls = "ResourceCollector" -> {"empty", "collect_raises"}
      [] cls = "MetricCollector" -> {"disabled", "stored"}
      [] cls = "LogCollector" -> {"disabled", "stored"}
      [] cls = "StackCollector" -> {"stored"}
      [] OTHER -> TickOutcomes

loop_continues_always(flag) == TRUE

\* while not self._stopped:
loop_continues(flag) == ~flag

AfterTick_uncaught(outcome) ==
    IF outcome = "blocks" THEN "blocked"
    ELSE IF outcome \in Raises THEN "exited" ELSE "loop"

\* try: ... except Exception: the thread goes round its loop again whatever
\* the tick did, unless collect_data never returns.
AfterTick(outcome) == IF outcome = "blocks" THEN "blocked" ELSE "loop"

AfterHeartbeat_once == "exited"

\* try: self.send_heartbeat() except Exception: ...; time.sleep(30)
AfterHeartbeat == "sleep"

Event(kind, index, what) == Some([kind |-> kind, index |-> index, what |-> what])

\* _start_periodical_collector: the loop test, then time.sleep(time_interval).
ThreadLoop(i) ==
    /\ i \in DOMAIN thread_pc
    /\ thread_pc[i] = "loop"
    /\ thread_pc' = [thread_pc EXCEPT ![i] =
                        IF loop_continues(stopped) THEN "sleep" ELSE "exited"]
    /\ UNCHANGED <<training_log_file, stopped, periodical_collectors, collector_threads,
                   report_thread, report_pc, register_log, start_calls, stop_calls,
                   last_event>>
    /\ UNCHANGED <<diag_vars, store_vars, lock_vars, ext_vars>>

\* _start_periodical_collector: the sleep returns and the tick runs.
ThreadTick(i, outcome) ==
    /\ i \in DOMAIN thread_pc
    /\ thread_pc[i] = "sleep"
    /\ outcome \in Outcomes(collector_threads[i].collector.cls)
    /\ thread_pc' = [thread_pc EXCEPT ![i] = AfterTick(outcome)]
    /\ last_event' = Event("collector", i, outcome)
    /\ UNCHANGED <<training_log_file, stopped, periodical_collectors, collector_threads,
                   report_thread, report_pc, register_log, start_calls, stop_calls>>
    /\ UNCHANGED <<diag_vars, store_vars, lock_vars, ext_vars>>

\* _periodically_report: the loop test, then send_heartbeat().
ReportLoop(r) ==
    /\ r \in DOMAIN report_pc
    /\ report_pc[r] = "loop"
    /\ IF loop_continues(stopped)
       THEN /\ report_pc' = [report_pc EXCEPT ![r] = AfterHeartbeat]
            /\ last_event' = Event("reporter", r, "heartbeat")
       ELSE /\ report_pc' = [report_pc EXCEPT ![r] = "exited"]
            /\ UNCHANGED last_event
    /\ UNCHANGED <<training_log_file, stopped, periodical_collectors, collector_threads,
                   thread_pc, report_thread, register_log, start_calls, stop_calls>>
    /\ UNCHANGED <<diag_vars, store_vars, lock_vars, ext_vars>>

\* _periodically_report: time.sleep(AGENT_PERIODICALLY_REPORT_INTERVAL_SECS) returns.
ReportWake(r) ==
    /\ r \in DOMAIN report_pc
    /\ report_pc[r] = "sleep"
    /\ report_pc' = [report_pc EXCEPT ![r] = "loop"]
    /\ UNCHANGED <<training_log_file, stopped, periodical_collectors, collector_threads,
                   thread_pc, report_thread, register_log, start_calls, stop_calls,
                   last_event>>
    /\ UNCHANGED <<diag_vars, store_vars, lock_vars, ext_vars>>

\* The agent right after DiagnosisAgent(), one register call and start().
StartedRegistry ==
    setup_default_collectors(
        register_periodical_data_collector(<<>>, Collector("UserCollector", 1), 30), "", 1)
StartedThreads == start_data_collection(StartedRegistry)

AgentStarted ==
    /\ training_log_file = ""
    /\ stopped = FALSE
    /\ periodical_collectors = StartedRegistry
    /\ collector_threads = StartedThreads
    /\ thread_pc = [i \in DOMAIN StartedThreads |-> "loop"]
    /\ report_thread = Some(1)
    /\ report_pc = <<"loop">>
    /\ register_log = <<[collector |-> Collector("UserCollector", 1), time_interval |-> 30]>>
    /\ start_calls = 1
    /\ stop_calls = 0
    /\ last_event = None

InitLoop == DiagIdle /\ StoreIdle /\ LockIdle /\ ExtIdle /\ AgentStarted

ThreadStep(i) == ThreadLoop(i) \/ \E outcome \in TickOutcomes : ThreadTick(i, outcome)
ReportStep(r) == ReportLoop(r) \/ ReportWake(r)

\* The threads run; the owner may call stop(), and does not call start() again.
NextLoop ==
    \/ \E i \in DOMAIN StartedThreads : ThreadLoop(i)
    \/ \E i \in DOMAIN StartedThreads, outcome \in TickOutcomes : ThreadTick(i, outcome)
    \/ ReportLoop(1)
    \/ ReportWake(1)
    \/ stop_calls < MaxStops /\ StopAgent

SpecLoop == InitLoop /\ [][NextLoop]_vars

\* Every sleep returns and every thread that can run is scheduled.
SpecLoopFair ==
    /\ SpecLoop
    /\ \A i \in DOMAIN StartedThreads : WF_vars(ThreadStep(i))
    /\ WF_vars(ReportStep(1))

(***************************************************************************)
(* Claims about diagnose_training_failure, checked under SpecDiag.         *)
(***************************************************************************)
DiagCalled == diag_call # None /\ diag_ret # None

\* C1: diagnose_training_failure returns a NodeAction whose kind is
\* restart-worker when restart_count < 3 and relaunch-worker when
\* restart_count >= 3, for every evidence value; restart_count = 2 gives
\* restart-worker and restart_count = 3 gives relaunch-worker.
Thm_C1_RestartBelowThree ==
    DiagCalled =>
        /\ diag_ret[1].class = "NodeAction"
        /\ diag_call[1].restart_count < 3 => diag_ret[1].action_type = RESTART_WORKER
        /\ diag_call[1].restart_count >= 3 => diag_ret[1].action_type = RELAUNCH_WORKER

Wit_C1_RelaunchAtThree ==
    /\ DiagCalled
    /\ diag_call[1].restart_count = 3
    /\ diag_call[1].failures = Some({"NODE_FAILED"})
    /\ diag_ret[1].action_type = RELAUNCH_WORKER

\* C2: the decision is total: every call, with absent, empty or non-empty
\* evidence and a negative, zero or large restart_count, returns a NodeAction
\* (never NoAction); with no evidence the returned action is the one the
\* restart counter alone selects, filled in from the node's environment.
Thm_C2_TotalDecision ==
    DiagCalled =>
        /\ diag_ret[1].class = "NodeAction"
        /\ diag_ret[1].action_type \in {RESTART_WORKER, RELAUNCH_WORKER}
        /\ diag_ret[1].node_id # None /\ diag_ret[1].node_type # None
        /\ diag_call[1].failures \in {None, Some({})} =>
              \A f \in Evidence :
                  diag_ret[1] = diagnose_training_failure(f, diag_call[1].restart_count,
                                                          diag_call[1].node_id_env,
                                                          diag_call[1].node_type_env)

Wit_C2_NoEvidenceNegativeCount ==
    /\ DiagCalled
    /\ diag_call[1].failures = None
    /\ diag_call[1].restart_count < 0
    /\ diag_ret[1].class = "NodeAction"
    /\ diag_call[1].node_id_env = Some("worker-7")
    /\ diag_ret[1].node_id = Some(-1)

\* C3: the returned action kind is restart-worker if and only if
\* restart_count is below the max_restarts value the caller supplies.
Cex_C3_CallerThreshold ==
    DiagCalled =>
        (diag_ret[1].action_type = RESTART_WORKER
            <=> diag_call[1].restart_count < diag_call[1].configured)

(***************************************************************************)
(* Claims about DiagnosisDataManager.                                      *)
(***************************************************************************)
Huge == MaxRecorded + 1
TimestampsOf(h, refs) == [i \in 1..Len(refs) |-> h[refs[i]].timestamp]
NonDecreasing(ts) == \A i, j \in 1..Len(ts) : i < j => ts[i] <= ts[j]
StrictlyIncreasing(ts) == \A i, j \in 1..Len(ts) : i < j => ts[i] < ts[j]
Last(list) == list[Len(list)]
\* The step is a store_data call on partition dt.
StoreStep(dt) == Len(RecordedOf(dt)') = Len(RecordedOf(dt)) + 1
StoreFilters == {None, Some(DefaultNodeId)}

\* C4 (as stated): at every query time now (the clock), get_data and
\* get_latest_data return no metric with timestamp < now - retention_window.
Cex_C4_NeverReturnsExpired ==
    \A dt \in DataTypes, f \in StoreFilters :
        /\ \A limit \in Limits :
              LET r == get_data(data_store, heap, dt, f, limit)
              IN  \A i \in 1..Len(r) : heap[r[i]].timestamp >= clock - data_retention_time
        /\ LET l == get_latest_data(data_store, heap, dt, f)
           IN  l # None => heap[l[1]].timestamp >= clock - data_retention_time

\* C4 (amended): right after a store_data call on a partition at time now, the
\* oldest entry get_data returns for it (no node filter, limit above its size)
\* has timestamp >= now - retention_window.
Thm_C4_FrontFreshAfterStore ==
    [][\A dt \in DataTypes :
          StoreStep(dt) =>
              LET r == get_data(data_store', heap', dt, None, Huge)
              IN  r # <<>> => heap'[r[1]].timestamp >= clock' - data_retention_time]_vars

Wit_C4_EvictedOnStore ==
    \E dt \in DOMAIN data_store :
        /\ Len(data_store[dt]) >= 1
        /\ Len(recorded[dt]) > Len(data_store[dt])
        /\ clock > data_retention_time + 1
        /\ heap[data_store[dt][1]].timestamp >= clock - data_retention_time

\* C5: after a store_data call on a partition at time now, no query of that
\* partition returns a metric with timestamp < now - retention_window,
\* whatever timestamps the earlier records carried.
Cex_C5_ExpiredAbsentAfterStore ==
    [][\A dt \in DataTypes :
          StoreStep(dt) =>
              \A f \in StoreFilters, limit \in Limits :
                  LET r == get_data(data_store', heap', dt, f, limit)
                  IN  \A i \in 1..Len(r) :
                          heap'[r[i]].timestamp >= clock' - data_retention_time]_vars

\* C6: when the store_data calls on a partition carried strictly increasing
\* timestamps, get_data returns the retained metrics in the order in which
\* they were recorded, oldest first.
Thm_C6_QueryKeepsRecordOrder ==
    \A dt \in DOMAIN data_store :
        StrictlyIncreasing(TimestampsOf(heap, recorded[dt])) =>
            \A f \in StoreFilters, limit \in Limits :
                LET r == get_data(data_store, heap, dt, f, limit)
                    Pos(ref) == CHOOSE k \in 1..Len(recorded[dt]) : recorded[dt][k] = ref
                IN  /\ \A i \in 1..Len(r) : \E k \in 1..Len(recorded[dt]) : recorded[dt][k] = r[i]
                    /\ \A i, j \in 1..Len(r) : i < j => Pos(r[i]) < Pos(r[j])

Wit_C6_TwoInOrder ==
    \E dt \in DOMAIN data_store :
        /\ Len(recorded[dt]) >= 2
        /\ StrictlyIncreasing(TimestampsOf(heap, recorded[dt]))
        /\ Len(get_data(data_store, heap, dt, None, Huge)) >= 2

\* C9: in every reachable state, after any record/clear calls with arbitrary
\* caller-supplied timestamps, each partition is in non-decreasing timestamp
\* order.
Cex_C9_PartitionSortedByTimestamp ==
    \A dt \in DOMAIN data_store : NonDecreasing(TimestampsOf(heap, data_store[dt]))

\* C10: store_data stamps the current time on a metric only when its timestamp
\* is 0; a metric with a non-zero timestamp keeps it through its own
\* store_data call and through every later call on the store.
Thm_C10_TimestampSetOnce ==
    [][/\ \A m \in DOMAIN heap : heap'[m] = heap[m]
       /\ \A m \in DOMAIN heap' :
             /\ heap'[m].given # 0 => heap'[m].timestamp = heap'[m].given
             /\ (m \notin DOMAIN heap /\ heap'[m].given = 0) => heap'[m].timestamp = clock]_vars

Wit_C10_GivenAndStamped ==
    \E a, b \in DOMAIN heap :
        /\ heap[a].given = 0 /\ heap[a].timestamp = 2
        /\ heap[b].given = 1 /\ heap[b].timestamp = 1
        /\ a < b
        /\ clock = MaxTime

(***************************************************************************)
(* Claims about the queries, checked under SpecQuery.                      *)
(***************************************************************************)
Called(op) == store_call # None /\ store_call[1].op = op

\* C7: get_latest_data returns the last element of get_data with the same
\* type and node filter and a limit above the partition size, evaluated at
\* the same instant, and returns None exactly when that result is empty.
Thm_C7_LatestIsLastOfQuery ==
    Called("get_latest_data") =>
        LET q == get_data(data_store, heap, store_call[1].data_type,
                          store_call[1].node_id, Huge)
        IN  /\ store_ret[1] = None <=> q = <<>>
            /\ q # <<>> => store_ret[1] = Some(Last(q))

Wit_C7_LatestOfFiltered ==
    /\ Called("get_latest_data")
    /\ store_call[1].node_id = Some(0)
    /\ store_ret[1] # None
    /\ LET dq == data_store[store_call[1].data_type]
       IN  /\ Len(dq) >= 2
           /\ heap[Last(dq)].node_id = 1
           /\ store_ret[1][1] # Last(dq)

\* C8: for every limit >= 0 and every node filter, get_data returns at most
\* limit metrics: the last min(limit, n) of the n stored metrics of the
\* partition that match the filter, in stored order.
Cex_C8_AtMostLimit ==
    (Called("get_data") /\ store_call[1].limit >= 0) =>
        LET dt == store_call[1].data_type
            f == store_call[1].node_id
            stored == IF dt \in DOMAIN data_store THEN data_store[dt] ELSE <<>>
            matching == IF f = None THEN stored
                        ELSE SelectSeq(stored, LAMBDA d : heap[d].node_id = f[1])
            n == Len(matching)
            k == Min(store_call[1].limit, n)
        IN  /\ Len(store_ret[1]) <= store_call[1].limit
            /\ store_ret[1] = SubSeq(matching, n - k + 1, n)

\* C11: for a type whose partition does not exist (never recorded, or removed
\* by a clear of everything), get_data returns the empty list, get_latest_data
\* returns None and get_data_count returns 0; each of them returns, and none
\* creates the partition or changes any partition.
Thm_C11_AbsentPartitionReads ==
    [][store_call' # None =>
          /\ store_ret' # None
          /\ data_store' = data_store
          /\ heap' = heap
          /\ store_call'[1].data_type \notin DOMAIN data_store =>
                /\ store_call'[1].op = "get_data" => store_ret'[1] = <<>>
                /\ store_call'[1].op = "get_latest_data" => store_ret'[1] = None
                /\ store_call'[1].op = "get_data_count" => store_ret'[1] = 0]_vars

Wit_C11_CountOfClearedAway ==
    /\ Called("get_data_count")
    /\ store_call[1].data_type \notin DOMAIN data_store
    /\ store_ret[1] = 0
    /\ \E dt \in DOMAIN data_store : data_store[dt] # <<>>
    /\ \E m \in DOMAIN heap : heap[m].data_type = store_call[1].data_type

\* C12: clear_data(t) leaves partition t empty and every other partition as it
\* was; clear_data() leaves every partition empty; clear_data of a type that
\* has no partition changes nothing.
Thm_C12_ClearFrame ==
    /\ \A t \in DataTypes :
          LET cleared == clear_data(data_store, Some(t))
          IN  /\ get_data_count(cleared, t) = 0
              /\ \A f \in NodeFilters : get_data(cleared, heap, t, f, Huge) = <<>>
              /\ \A u \in DataTypes \ {t} :
                    /\ u \in DOMAIN cleared <=> u \in DOMAIN data_store
                    /\ u \in DOMAIN data_store => cleared[u] = data_store[u]
              /\ t \notin DOMAIN data_store => cleared = data_store
    /\ LET cleared == clear_data(data_store, None)
       IN  \A u \in DataTypes :
               /\ get_data_count(cleared, u) = 0
               /\ \A f \in NodeFilters : get_data(cleared, heap, u, f, Huge) = <<>>

\* A partition that exists and is empty beside one that kept its two entries:
\* in one second nothing is evicted, so only clear_data(t) leaves this state.
Wit_C12_OneClearedOtherKept ==
    \E t, u \in DOMAIN data_store :
        /\ data_store[t] = <<>>
        /\ \E m \in DOMAIN heap : heap[m].data_type = t
        /\ Len(data_store[u]) = 2

(***************************************************************************)
(* Claims about concurrent callers, checked under SpecLock.                *)
(***************************************************************************)
\* The step is the one on which thread th leaves its call.
Returns(th) == callers[th].pc # "idle" /\ callers'[th].pc = "idle"

\* C13: any interleaving of concurrent store_data, get_data, get_latest_data,
\* get_data_count and clear_data calls behaves as the calls run one at a time
\* in the order in which they took the lock: at most one call is between
\* taking and releasing the lock, each call returns what the whole method
\* returns on the store it found when it took the lock and leaves the store
\* the whole method leaves, and while no call is inside, every partition
\* holds each metric recorded since its last clear exactly once.
Thm_C13_CallsAreSerial ==
    [][/\ \A a, b \in Threads : (Inside(a)' /\ Inside(b)') => a = b
       /\ \A th \in Threads :
             Returns(th) =>
                 LET c == CallOf(th)
                     b == callers[th].before[1]
                 IN  IF c.op = "store_data"
                     THEN LET h1 == Stamp(b.heap, c.m, clock)
                          IN  /\ \A m \in DOMAIN h1 : heap'[m] = h1[m]
                              /\ data_store' = store_data(b.data_store, h1, c.m, clock,
                                                          data_retention_time)
                              /\ callers'[th].ret = Some("None")
                     ELSE /\ \A m \in DOMAIN b.heap : heap'[m] = b.heap[m]
                          /\ data_store' = BodyStore(c.op, b.data_store, c.data_type)
                          /\ callers'[th].ret =
                                 Some(BodyRet(c.op, b.data_store, b.heap, c.data_type))
       /\ data_lock' = None =>
             /\ DOMAIN recorded' = DOMAIN data_store'
             /\ \A dt \in DOMAIN data_store' : data_store'[dt] = recorded'[dt]]_vars

\* One thread is about to leave store_data on a partition that its own call
\* created, while another waits for the lock with a store_data call on the
\* same partition.
Wit_C13_StoreWaitsForStore ==
    \E a, b \in Threads :
        /\ callers[a].pc = "clean"
        /\ callers[b].pc = "acquire"
        /\ CallOf(b).op = "store_data"
        /\ CallOf(b).data_type = CallOf(a).data_type
        /\ CallOf(a).data_type[1] \notin DOMAIN callers[a].before[1].data_store
        /\ data_store[CallOf(a).data_type[1]] = <<CallOf(a).m>>

(***************************************************************************)
(* Claims about registration and lifecycle, checked under SpecAgent.       *)
(***************************************************************************)
\* The interval of the caller's last register call for collector c.
LastAsked(c) ==
    register_log[CHOOSE k \in DOMAIN register_log :
                    /\ register_log[k].collector = c
                    /\ \A j \in DOMAIN register_log :
                          register_log[j].collector = c => j <= k].time_interval
Asked(c) == \E k \in DOMAIN register_log : register_log[k].collector = c

\* C14: after any register_periodical_data_collector calls every interval in
\* the registry is >= 30; a call with interval < 30 is accepted and stores 30,
\* a call with interval >= 30 stores it unchanged, and no call is rejected.
Thm_C14_IntervalAtLeastMinimum ==
    /\ \A i \in DOMAIN periodical_collectors : periodical_collectors[i].time_interval >= 30
    /\ \A c \in UserCollectors :
          Asked(c) =>
              /\ DictHas(periodical_collectors, c)
              /\ LastAsked(c) < 30 => DictGet(periodical_collectors, c) = 30
              /\ LastAsked(c) >= 30 => DictGet(periodical_collectors, c) = LastAsked(c)

Wit_C14_ClampedAndKept ==
    \E a, b \in UserCollectors :
        /\ Asked(a) /\ LastAsked(a) = 29 /\ DictGet(periodical_collectors, a) = 30
        /\ Asked(b) /\ LastAsked(b) = 31 /\ DictGet(periodical_collectors, b) = 31

ThreadsOf(threads, c) == {i \in DOMAIN threads : threads[i].collector = c}
ItemsOf(registry, c) == {i \in DOMAIN registry : registry[i].collector = c}
\* The step is the first start() call.
FirstStart == start_calls = 0 /\ start_calls' = 1

LiveThreadsOf(threads, pcs, c) == {i \in ThreadsOf(threads, c) : pcs[i] # "exited"}
LiveReporters(pcs) == {i \in DOMAIN pcs : pcs[i] # "exited"}
CollectorsOf(registry) == {registry[i].collector : i \in DOMAIN registry}
StartStep == start_calls' = start_calls + 1

\* What C16 says of one step: at most one polling task per registered sensor
\* and at most one heartbeat task; a start() adds exactly one polling task per
\* sensor of the registry and one heartbeat task; after a start() no other
\* call changes the number of tasks.
OneTaskPerSensor ==
    /\ \A c \in CollectorsOf(periodical_collectors') :
          Cardinality(LiveThreadsOf(collector_threads', thread_pc', c)) <= 1
    /\ Cardinality(LiveReporters(report_pc')) <= 1
    /\ StartStep =>
          /\ \A c \in CollectorsOf(periodical_collectors') :
                Cardinality(ThreadsOf(collector_threads', c)) =
                    Cardinality(ThreadsOf(collector_threads, c)) + 1
          /\ Len(collector_threads') =
                 Len(collector_threads) + Len(periodical_collectors')
          /\ Len(report_pc') = Len(report_pc) + 1
    /\ ~StartStep =>
          /\ Len(collector_threads') = Len(collector_threads)
          /\ Len(report_pc') = Len(report_pc)

StopStep == stop_calls' = stop_calls + 1
\* The fields of the agent other than the stop flag, and its threads.
AgentFields == <<training_log_file, periodical_collectors, collector_threads, thread_pc,
                 report_thread, report_pc>>

\* C19: stop() completes and leaves the stop flag set when called before
\* start(), once after start(), and a second time after a previous stop();
\* it changes no other field, so a second stop() leaves the agent exactly as
\* the first one left it.
Thm_C19_StopIdempotent ==
    [][StopStep =>
          /\ stopped' = TRUE
          /\ AgentFields' = AgentFields
          /\ stopped => (stopped' = stopped /\ AgentFields' = AgentFields)]_vars

Wit_C19_StoppedTwiceAfterStart ==
    /\ stop_calls = 2
    /\ start_calls = 1
    /\ stopped = TRUE
    /\ report_thread # None
    /\ collector_threads # <<>>

(***************************************************************************)
(* Claims about the running threads, checked under SpecLoop(Fair).         *)
(***************************************************************************)
\* The step is a tick of thread i.
TickStep(i) == thread_pc[i] = "sleep" /\ thread_pc'[i] # "sleep"

\* C17: when is_enabled, collect_data or store_data of a sensor raises during
\* a tick, the exception is caught in that sensor's thread: the thread stays
\* alive and goes on to its next cycle, and no other sensor's thread and not
\* the heartbeat thread is terminated or moved by it.
Thm_C17_TickExceptionContained ==
    [][\A i \in DOMAIN thread_pc :
          (TickStep(i) /\ last_event'[1].what \in Raises) =>
              /\ thread_pc'[i] = "loop"
              /\ \A j \in DOMAIN thread_pc : j # i => thread_pc'[j] = thread_pc[j]
              /\ report_pc' = report_pc
              /\ stopped' = stopped]_vars

Wit_C17_StoreRaisedOthersRunning ==
    /\ last_event # None
    /\ last_event[1].kind = "collector"
    /\ last_event[1].what = "store_raises"
    /\ thread_pc[last_event[1].index] = "sleep"
    /\ \A j \in DOMAIN thread_pc : thread_pc[j] \in {"loop", "sleep"}
    /\ report_pc[1] = "sleep"
    /\ ~stopped

Beat == last_event # None /\ last_event[1].kind = "reporter"
TickOf(i) ==
    /\ last_event # None
    /\ last_event[1].kind = "collector"
    /\ last_event[1].index = i
Published(i) == TickOf(i) /\ last_event[1].what = "stored"
\* The thread of the StackCollector: always enabled, never failing.
StackThread ==
    CHOOSE i \in DOMAIN StartedThreads : StartedThreads[i].collector.cls = "StackCollector"
UserThread ==
    CHOOSE i \in DOMAIN StartedThreads : StartedThreads[i].collector.cls = "UserCollector"

\* C18: under fair scheduling, as long as the stop flag is not set, the
\* heartbeat is emitted again and again and an enabled, non-failing sensor
\* publishes on every one of its ticks, again and again, whatever the other
\* sensors do (raise, report disabled, or block for ever).
Thm_C18_LoopsKeepRunning ==
    /\ [](TickOf(StackThread) => Published(StackThread))
    /\ []<>(stopped \/ Beat)
    /\ []<>(stopped \/ Published(StackThread))

Wit_C18_PublishedBesideBlocked ==
    /\ ~stopped
    /\ thread_pc[UserThread] = "blocked"
    /\ Published(StackThread)
    /\ report_pc[1] = "sleep"

AllDrained ==
    /\ \A i \in DOMAIN thread_pc : thread_pc[i] \in {"exited", "blocked"}
    /\ \A r \in DOMAIN report_pc : report_pc[r] = "exited"

\* C20: after stop() on a started agent on which start() is not called again,
\* under fair scheduling every polling thread whose sleep and collect return,
\* and the heartbeat thread, eventually sees the flag and exits.
Thm_C20_ThreadsDrainAfterStop == stopped ~> AllDrained

Wit_C20_DrainedAfterStop ==
    /\ stopped
    /\ stop_calls = 1
    /\ AllDrained
    /\ \A i \in DOMAIN thread_pc : thread_pc[i] = "exited"
    /\ last_event # None

\* ---------------------------------------------------------------------------
\* stop(), statement by statement, beside the running threads (SpecStop).
\* ---------------------------------------------------------------------------

\* thread.join(timeout=5)
JOIN_TIMEOUT == 5

join_done_without_timeout(pc, timeout) == pc = "exited"

\* Thread.join(timeout): returns once the thread has ended, and at the latest
\* when the timeout has elapsed (timeout None: waits for the end of the thread).
join_done(pc, timeout) == pc = "exited" \/ timeout # None

\* for thread in self._collector_threads: the k-th join, or the return after the last.
JoinFrom(k) ==
    IF k <= Len(collector_threads)
    THEN [pc |-> "join_collector", k |-> k]
    ELSE [pc |-> "returned", k |-> 0]

\* stop(): self._stopped = True; if self._report_thread: ...
StopCall ==
    /\ stopper.pc \in {"idle", "returned"}
    /\ stopped' = TRUE
    /\ stop_calls' = stop_calls + 1
    /\ stopper' = IF report_thread # None
                  THEN [pc |-> "join_report", k |-> report_thread[1]]
                  ELSE JoinFrom(1)
    /\ UNCHANGED <<training_log_file, periodical_collectors, collector_threads, thread_pc,
                   report_thread, report_pc, register_log, start_calls, last_event>>
    /\ UNCHANGED <<diag_vars, store_vars, lock_vars, tick_vars, single_vars, ckpt_vars,
                   collect_vars>>

\* self._report_thread.join(timeout=5) returns.
StopJoinReport ==
    /\ stopper.pc = "join_report"
    /\ join_done(report_pc[stopper.k], Some(JOIN_TIMEOUT))
    /\ stopper' = JoinFrom(1)
    /\ UNCHANGED <<diag_vars, store_vars, lock_vars, agent_vars, tick_vars, single_vars,
                   ckpt_vars, collect_vars>>

\* thread.join(timeout=5) returns, for the k-th collector thread.
StopJoinCollector ==
    /\ stopper.pc = "join_collector"
    /\ join_done(thread_pc[stopper.k], Some(JOIN_TIMEOUT))
    /\ stopper' = JoinFrom(stopper.k + 1)
    /\ UNCHANGED <<diag_vars, store_vars, lock_vars, agent_vars, tick_vars, single_vars,
                   ckpt_vars, collect_vars>>

StopperStep == StopJoinReport \/ StopJoinCollector

\* The threads run while the owner calls stop(); stop() is not called while a
\* call of it is under way.
NextStop ==
    \/ \E i \in DOMAIN StartedThreads : ThreadLoop(i)
    \/ \E i \in DOMAIN StartedThreads, outcome \in TickOutcomes : ThreadTick(i, outcome)
    \/ ReportLoop(1)
    \/ ReportWake(1)
    \/ stop_calls < MaxStops /\ StopCall
    \/ StopJoinReport
    \/ StopJoinCollector

SpecStop == InitLoop /\ [][NextStop]_vars

\* The thread that called stop() is scheduled and time passes; nothing is
\* assumed of the collector threads and of the reporter.
SpecStopFair == SpecStop /\ WF_vars(StopperStep)

InStop == stopper.pc \in {"join_report", "join_collector"}

\* C21: every call of stop() returns, whatever the threads do: a thread that
\* is blocked in collect_data() or asleep is given up after its join timed out.
Thm_C21_StopReturns == InStop ~> stopper.pc = "returned"

\* stop() has returned while a collector thread is blocked in collect_data()
\* and another is asleep.
Wit_C21_ReturnedBesideBlockedAndSleeping ==
    /\ stopper.pc = "returned"
    /\ \E i \in DOMAIN thread_pc : thread_pc[i] = "blocked"
    /\ \E i \in DOMAIN thread_pc : thread_pc[i] = "sleep"

\* ---------------------------------------------------------------------------
\* Registration after start(), beside the running threads (SpecLate).
\* ---------------------------------------------------------------------------

\* The intervals asked for after start(): one below the minimum, and one that
\* is not the interval of the caller's running thread.
LateIntervals == {29, 31}

\* The threads run; the caller registers collectors and may call stop(); it
\* does not call start() again.
NextLate ==
    \/ NextLoop
    \/ \E c \in UserCollectors, t \in LateIntervals :
          Len(register_log) < MaxRegisterCalls /\ Register(c, t)

SpecLate == InitLoop /\ [][NextLate]_vars

RegisterStep == Len(register_log') = Len(register_log) + 1
LastRegistered == register_log[Len(register_log)]
\* The collectors registered after start() only.
LateCollectors == CollectorsOf(periodical_collectors) \ CollectorsOf(StartedRegistry)

\* C22: a register call after start() puts the sensor in the registry and
\* creates no task; as long as start() is not called again a sensor registered
\* late has no thread and is never polled, and every running thread keeps the
\* collector and the interval it was started with, also when its sensor is
\* registered again with another interval.
Thm_C22_LateRegistrationNotPolled ==
    [][/\ RegisterStep =>
             /\ DictHas(periodical_collectors', LastRegistered'.collector)
             /\ DictGet(periodical_collectors', LastRegistered'.collector)
                   = ClampInterval(LastRegistered'.time_interval)
             /\ collector_threads' = collector_threads
             /\ thread_pc' = thread_pc
             /\ report_pc' = report_pc
       /\ collector_threads' = StartedThreads
       /\ \A c \in LateCollectors' : ThreadsOf(collector_threads', c) = {}
       /\ \A i \in DOMAIN thread_pc' :
             TickStep(i) => collector_threads[i].collector \notin LateCollectors'
      ]_vars

\* A sensor that was not running was registered after start(), and a thread
\* has ticked.
Wit_C22_RegisteredLateThenTicked ==
    /\ LateCollectors # {}
    /\ Len(register_log) > 1
    /\ last_event # None
    /\ last_event[1].kind = "collector"

\* ---------------------------------------------------------------------------
\* One collector thread, call by call (SpecTick).
\* ---------------------------------------------------------------------------

\* The ticks of the followed thread that are kept in tick_log.
MaxTicks == 3

\* What is_enabled() of a collector of the class can do.
IsEnabledResults(cls) ==
    CASE cls \in {"ResourceCollector", "StackCollector"} -> {"True"}
      [] cls \in {"MetricCollector", "LogCollector"} -> {"True", "False"}
      [] OTHER -> {"True", "False", "raises"}

\* What collect_data() of a collector of the class can do: return None, an
\* empty string, an empty dict or a payload, raise, or never return.
CollectResults(cls) ==
    CASE cls = "ResourceCollector" -> {"None", "raises"}
      [] cls \in {"MetricCollector", "LogCollector"} -> {"''", "data"}
      [] cls = "StackCollector" -> {"{}", "data"}
      [] OTHER -> {"None", "''", "data", "raises", "blocks"}

\* What store_data(data) of a collector of the class can do. No collector of
\* the repository hands the data to a DiagnosisDataManager: the base class
\* does nothing, the others build a WorkerTrainingMetric and log or report it.
StoreResults(cls) ==
    CASE cls \in {"ResourceCollector", "MetricCollector", "LogCollector", "StackCollector"}
             -> {"ok"}
      [] OTHER -> {"ok", "raises"}

Call(op, result) == [op |-> op, result |-> result]

AfterIsEnabled_ignored(result) == IF result = "raises" THEN "loop" ELSE "collect_data"

\* if collector.is_enabled(): ... (an exception ends the tick)
AfterIsEnabled(result) == IF result = "True" THEN "collect_data" ELSE "loop"

\* data = collector.collect_data(); if data is not None: ...
AfterCollect(result) ==
    CASE result = "blocks" -> "blocked"
      [] result \in {"None", "raises"} -> "loop"
      [] OTHER -> "store_data"

FocusClass == collector_threads[focus].collector.cls

\* The call ends a tick when the thread is back at the test of its loop.
TickDone(pc, calls) == IF pc = "loop" THEN Append(tick_log, calls) ELSE tick_log

\* while not self._stopped
FocusLoop ==
    /\ thread_pc[focus] = "loop"
    /\ Len(tick_log) < MaxTicks \/ ~loop_continues(stopped)
    /\ thread_pc' = [thread_pc EXCEPT ![focus] =
                        IF loop_continues(stopped) THEN "sleep" ELSE "exited"]
    /\ UNCHANGED <<training_log_file, stopped, periodical_collectors, collector_threads,
                   report_thread, report_pc, register_log, start_calls, stop_calls,
                   last_event>>
    /\ UNCHANGED <<diag_vars, store_vars, lock_vars, ext_vars>>

\* time.sleep(time_interval) returns.
FocusWake ==
    /\ thread_pc[focus] = "sleep"
    /\ thread_pc' = [thread_pc EXCEPT ![focus] = "is_enabled"]
    /\ tick_calls' = <<>>
    /\ UNCHANGED <<focus, tick_log>>
    /\ UNCHANGED <<training_log_file, stopped, periodical_collectors, collector_threads,
                   report_thread, report_pc, register_log, start_calls, stop_calls,
                   last_event>>
    /\ UNCHANGED <<diag_vars, store_vars, lock_vars, stop_vars, single_vars, ckpt_vars,
                   collect_vars>>

\* The followed thread makes the call op, which ends as result, and goes to pc.
FocusCall(op, result, pc) ==
    /\ thread_pc[focus] = op
    /\ thread_pc' = [thread_pc EXCEPT ![focus] = pc]
    /\ tick_calls' = Append(tick_calls, Call(op, result))
    /\ tick_log' = TickDone(pc, tick_calls')
    /\ UNCHANGED focus
    /\ UNCHANGED <<training_log_file, stopped, periodical_collectors, collector_threads,
                   report_thread, report_pc, register_log, start_calls, stop_calls,
                   last_event>>
    /\ UNCHANGED <<diag_vars, store_vars, lock_vars, stop_vars, single_vars, ckpt_vars,
                   collect_vars>>

\* collector.is_enabled()
FocusIsEnabled(result) ==
    /\ result \in IsEnabledResults(FocusClass)
    /\ FocusCall("is_enabled", result, AfterIsEnabled(result))

\* data = collector.collect_data()
FocusCollect(result) ==
    /\ result \in CollectResults(FocusClass)
    /\ FocusCall("collect_data", result, AfterCollect(result))

\* collector.store_data(data); the except clause brings a failure back to the loop.
FocusStore(result) ==
    /\ result \in StoreResults(FocusClass)
    /\ FocusCall("store_data", result, "loop")

CallResults == {"True", "False", "None", "''", "{}", "data", "ok", "raises", "blocks"}

\* The started agent, with one of its collector threads followed.
InitTick ==
    /\ DiagIdle
    /\ StoreIdle
    /\ LockIdle
    /\ AgentStarted
    /\ StopIdle
    /\ SingleIdle
    /\ CkptIdle
    /\ CollectIdle
    /\ focus \in DOMAIN StartedThreads
    /\ tick_calls = <<>>
    /\ tick_log = <<>>

NextTick ==
    \/ FocusLoop
    \/ FocusWake
    \/ \E result \in CallResults : FocusIsEnabled(result)
    \/ \E result \in CallResults : FocusCollect(result)
    \/ \E result \in CallResults : FocusStore(result)
    \/ stop_calls < MaxStops /\ StopAgent

SpecTick == InitTick /\ [][NextTick]_vars

\* The data type of the WorkerTrainingMetric a collector of the class builds
\* in store_data (the ResourceCollector reports through its monitor).
SignalTypeOf(cls) ==
    CASE cls = "MetricCollector" -> "XPU_TIMER_METRIC"
      [] cls = "LogCollector" -> "TRAINING_LOG"
      [] cls = "StackCollector" -> "STACK_TRACE"
      [] OTHER -> "RESOURCE_STATS"

\* The tick found the sensor enabled, collected a payload and stored it.
Publishing(calls) ==
    calls = <<Call("is_enabled", "True"), Call("collect_data", "data"),
              Call("store_data", "ok")>>

\* C23 (as stated; violated): when each of the k ticks of a sensor of the
\* repository found it enabled and collected a non-empty payload, the
\* partition of the sensor's data type in the store holds exactly k metrics.
Cex_C23_StoreHoldsOneMetricPerTick ==
    (/\ FocusClass # "UserCollector"
     /\ \A k \in DOMAIN tick_log : Publishing(tick_log[k]))
    => get_data_count(data_store, SignalTypeOf(FocusClass)) = Len(tick_log)

PcFocus == thread_pc[focus]
LastCall == tick_calls[Len(tick_calls)]
CallStep == Len(tick_calls') = Len(tick_calls) + 1
\* The calls of one cycle: is_enabled first, collect_data only after
\* is_enabled returned true, store_data only after collect_data.
InOrder(calls) ==
    /\ Len(calls) <= 3
    /\ Len(calls) >= 1 => calls[1].op = "is_enabled"
    /\ Len(calls) >= 2 => calls[1].result = "True" /\ calls[2].op = "collect_data"
    /\ Len(calls) >= 3 => calls[3].op = "store_data"

\* C30: in every cycle the thread sleeps, then calls is_enabled(), then
\* collect_data(): is_enabled() is called only when the sleep has returned,
\* collect_data() only when is_enabled() of the same tick returned true; a
\* tick where is_enabled() returned false makes no other call and the thread
\* goes back to the loop test and from there to its next sleep (or exits);
\* no call is made before the first sleep has returned.
Thm_C30_SleepThenEnabledThenCollect ==
    [][/\ (PcFocus' = "is_enabled" /\ PcFocus # "is_enabled") =>
             PcFocus = "sleep" /\ tick_calls' = <<>>
       /\ (CallStep /\ LastCall'.op = "is_enabled") => tick_calls = <<>>
       /\ (CallStep /\ LastCall'.op = "collect_data") =>
             tick_calls = <<Call("is_enabled", "True")>>
       /\ (CallStep /\ LastCall' = Call("is_enabled", "False")) =>
             /\ PcFocus' = "loop"
             /\ tick_log' = Append(tick_log, <<Call("is_enabled", "False")>>)
       /\ (PcFocus = "loop" /\ PcFocus' # "loop") => PcFocus' \in {"sleep", "exited"}
       /\ (tick_log = <<>> /\ PcFocus \in {"loop", "sleep"}) => tick_calls = <<>>
       /\ InOrder(tick_calls')
       /\ \A k \in DOMAIN tick_log' : InOrder(tick_log'[k])
      ]_vars

\* A tick that found the sensor disabled was followed by one that collected.
Wit_C30_DisabledTickThenCollect ==
    /\ Len(tick_log) >= 1
    /\ tick_log[1] = <<Call("is_enabled", "False")>>
    /\ Len(tick_calls) >= 2
    /\ tick_calls[2].op = "collect_data"

\* ---------------------------------------------------------------------------
\* Singleton.singleton_instance, one call after the other (SpecSingleton).
\* ---------------------------------------------------------------------------

MaxSingletonCalls == 4

\* The Singleton subclasses, and the constructor arguments a caller passes.
SingletonClasses == {"DiagnosisAgent", "ResourceMonitor", "TrainingMonitor"}
CtorArgs == {1, 2}

InstancesHas(d, cls) == \E i \in DOMAIN d : d[i].cls = cls
InstancesGet(d, cls) == d[CHOOSE i \in DOMAIN d : d[i].cls = cls].instance
\* cls._instances[cls] = instance
InstancesSet(d, cls, instance) ==
    IF InstancesHas(d, cls)
    THEN [i \in DOMAIN d |-> IF d[i].cls = cls THEN [cls |-> cls, instance |-> instance]
                             ELSE d[i]]
    ELSE Append(d, [cls |-> cls, instance |-> instance])

\* cls(*args, **kwargs) for a class whose __init__ makes no singleton: a new
\* object (id), built from the arguments.
Construct(st, cls, args) ==
    [st EXCEPT !.constructions = Append(@, [cls |-> cls, args |-> args]),
               !.instances = InstancesSet(@, cls, [cls |-> cls, args |-> args,
                                                  id |-> Len(st.constructions) + 1])]

Returned(st, cls, args) ==
    [st EXCEPT !.calls = Append(@, [cls |-> cls, args |-> args,
                                    ret |-> InstancesGet(st.instances, cls)])]

\* singleton_instance of a class whose __init__ makes no singleton.
singleton_instance_plain(st, cls, args) ==
    Returned(IF InstancesHas(st.instances, cls) THEN st ELSE Construct(st, cls, args),
             cls, args)

singleton_instance_rebuilding(st, cls, args) ==
    Returned(Construct(st, cls, args), cls, args)

\* singleton_instance(cls, args) run alone: the instance is constructed when
\* the class has none; TrainingMonitor.__init__ first asks for the
\* ResourceMonitor singleton, with its device type.
singleton_instance(st, cls, args) ==
    IF InstancesHas(st.instances, cls)
    THEN Returned(st, cls, args)
    ELSE IF cls = "TrainingMonitor"
    THEN Returned(Construct(singleton_instance_plain(st, "ResourceMonitor", args), cls, args),
                  cls, args)
    ELSE Returned(Construct(st, cls, args), cls, args)

SingletonInstance(cls, args) ==
    LET st == singleton_instance([instances |-> instances, constructions |-> constructions,
                                  calls |-> single_calls], cls, args)
    IN  /\ instances' = st.instances
        /\ constructions' = st.constructions
        /\ single_calls' = st.calls
        /\ UNCHANGED <<instance_lock, single_threads>>
        /\ UNCHANGED <<diag_vars, store_vars, lock_vars, agent_vars, stop_vars, tick_vars,
                       ckpt_vars, collect_vars>>

InitSingleton ==
    /\ DiagIdle
    /\ StoreIdle
    /\ LockIdle
    /\ AgentIdle
    /\ ExtIdle

NextSingleton ==
    \E cls \in SingletonClasses, args \in CtorArgs :
        Len(single_calls) < MaxSingletonCalls /\ SingletonInstance(cls, args)

SpecSingleton == InitSingleton /\ [][NextSingleton]_vars

\* The first call made for the class.
FirstCallOf(cls) ==
    single_calls[CHOOSE k \in DOMAIN single_calls :
                    /\ single_calls[k].cls = cls
                    /\ \A j \in DOMAIN single_calls : single_calls[j].cls = cls => k <= j]
ConstructionsOf(cls) == {k \in DOMAIN constructions : constructions[k].cls = cls}

\* C24: whatever singleton_instance calls are made one after the other, every
\* call for a class returns the instance the first call for that class
\* returned, that instance was built from the arguments of the first call (the
\* arguments of later calls are ignored), the class was constructed exactly
\* once, and calls for different classes return different instances.
Thm_C24_OneInstancePerClass ==
    /\ \A k \in DOMAIN single_calls :
          LET c == single_calls[k]
          IN  /\ c.ret = FirstCallOf(c.cls).ret
              /\ c.ret.cls = c.cls
              /\ c.ret.args = FirstCallOf(c.cls).args
              /\ Cardinality(ConstructionsOf(c.cls)) = 1
    /\ \A j, k \in DOMAIN single_calls :
          single_calls[j].cls # single_calls[k].cls =>
              single_calls[j].ret.id # single_calls[k].ret.id

\* A class was asked for twice with different arguments, and another class too.
Wit_C24_SecondCallOtherArguments ==
    \E j, k, l \in DOMAIN single_calls :
        /\ j < k
        /\ single_calls[j].cls = single_calls[k].cls
        /\ single_calls[j].args # single_calls[k].args
        /\ single_calls[l].cls # single_calls[j].cls

\* ---------------------------------------------------------------------------
\* LatestCheckpointManager (SpecCkpt) and PeriodicCheckpointManager
\* (SpecPeriodic). A checkpoint file checkpoint_step_{step}.pt is a step of
\* the directory, with the state saved in it.
\* ---------------------------------------------------------------------------

MaxKeep == 2        \* max_checkpoints ranges over 0..MaxKeep
MaxStep == 3        \* step ranges over 0..MaxStep
MaxInterval == 3    \* save_interval ranges over 1..MaxInterval

Steps == 0..MaxStep
StateDicts == {"A", "B"}

\* checkpoints.sort(key=step number); the files are the steps of the directory.
RECURSIVE SortedSteps(_)
SortedSteps(S) ==
    IF S = {} THEN <<>>
    ELSE LET m == CHOOSE x \in S : \A y \in S : x <= y
         IN  <<m>> \o SortedSteps(S \ {m})

list_checkpoints(dir) == SortedSteps(DOMAIN dir)

\* list[:stop] of Python: a negative stop counts from the end, -0 is 0.
PySliceTo(list, stop) ==
    LET n == Len(list)
        e == IF stop < 0 THEN Max(n + stop, 0) ELSE Min(stop, n)
    IN  SubSeq(list, 1, e)

SeqRange(s) == {s[i] : i \in DOMAIN s}

\* _cleanup_old_checkpoints: os.remove of checkpoints[: -self._max_checkpoints].
cleanup_old_checkpoints(dir, max) ==
    LET checkpoints == list_checkpoints(dir)
    IN  IF Len(checkpoints) > max
        THEN [s \in DOMAIN dir \ SeqRange(PySliceTo(checkpoints, -max)) |-> dir[s]]
        ELSE dir

\* torch.save(state_dict, checkpoint_path)
torch_save(dir, state_dict, step) ==
    [s \in DOMAIN dir \cup {step} |-> IF s = step THEN state_dict ELSE dir[s]]

\* load(checkpoint_path): None (the latest path), or a step.
load(dir, latest, checkpoint_path) ==
    LET path == IF checkpoint_path = None THEN latest ELSE checkpoint_path
    IN  IF path = None \/ path[1] \notin DOMAIN dir
        THEN None
        ELSE Some(dir[path[1]])

\* The state of the most recent successful save (history).
SavedBy(call) == IF call = None THEN None ELSE call[1].saved

CkptCall(op, state_dict, step, ret, saved) ==
    Some([op |-> op, state_dict |-> state_dict, step |-> step, ret |-> ret,
          saved |-> saved, before |-> last_saved_step])

\* LatestCheckpointManager.save(state_dict, step); ok: torch.save succeeds.
\* It returns the path (here the step), or "" when torch.save raised.
CkptSave(state_dict, step, ok) ==
    /\ IF ok
       THEN /\ ckpt_dir' = cleanup_old_checkpoints(torch_save(ckpt_dir, state_dict, step),
                                                   max_checkpoints)
            /\ latest_checkpoint_path' = Some(step)
            /\ ckpt_call' = CkptCall("save", state_dict, step, Some(step), Some(state_dict))
       ELSE /\ UNCHANGED <<ckpt_dir, latest_checkpoint_path>>
            /\ ckpt_call' = CkptCall("save", state_dict, step, None, SavedBy(ckpt_call))
    /\ UNCHANGED <<max_checkpoints, save_interval, last_saved_step>>
    /\ UNCHANGED <<diag_vars, store_vars, lock_vars, agent_vars, stop_vars, tick_vars,
                   single_vars, collect_vars>>

\* LatestCheckpointManager.load(): the latest checkpoint.
CkptLoad ==
    /\ ckpt_call' = CkptCall("load", "", 0,
                             load(ckpt_dir, latest_checkpoint_path, None),
                             SavedBy(ckpt_call))
    /\ UNCHANGED <<max_checkpoints, ckpt_dir, latest_checkpoint_path, save_interval,
                   last_saved_step>>
    /\ UNCHANGED <<diag_vars, store_vars, lock_vars, agent_vars, stop_vars, tick_vars,
                   single_vars, collect_vars>>

\* LatestCheckpointManager(checkpoint_dir, max_checkpoints) on an empty directory.
InitCkpt ==
    /\ DiagIdle
    /\ StoreIdle
    /\ LockIdle
    /\ AgentIdle
    /\ StopIdle
    /\ TickIdle
    /\ SingleIdle
    /\ CollectIdle
    /\ max_checkpoints \in 0..MaxKeep
    /\ ckpt_dir = <<>>
    /\ latest_checkpoint_path = None
    /\ save_interval = 1000
    /\ last_saved_step = -1
    /\ ckpt_call = None

NextCkpt ==
    \/ \E state_dict \in StateDicts, step \in Steps, ok \in BOOLEAN :
          CkptSave(state_dict, step, ok)
    \/ CkptLoad

SpecCkpt == InitCkpt /\ [][NextCkpt]_vars

\* C25 (as stated; violated): after successful saves the directory holds at
\* most max_checkpoints files, for every max_checkpoints.
Cex_C25_AtMostMaxCheckpoints == Cardinality(DOMAIN ckpt_dir) <= max_checkpoints

\* C26 (as stated; violated): after successful saves, with steps in any
\* order, load() returns the state of the most recent successful save.
Cex_C26_LoadReturnsLastSaved ==
    (ckpt_call # None /\ ckpt_call[1].op = "load" /\ ckpt_call[1].saved # None)
    => ckpt_call[1].ret = ckpt_call[1].saved

\* should_save(step)
should_save(step, last, interval) ==
    IF step = 0 THEN FALSE
    ELSE IF step - last >= interval THEN TRUE
    ELSE FALSE

\* PeriodicCheckpointManager.save(state_dict, step): the save of the base
\* class, then self._last_saved_step = step when a path came back.
PeriodicSave(state_dict, step, ok) ==
    /\ IF ok
       THEN /\ ckpt_dir' = cleanup_old_checkpoints(torch_save(ckpt_dir, state_dict, step),
                                                   max_checkpoints)
            /\ latest_checkpoint_path' = Some(step)
            /\ last_saved_step' = step
            /\ ckpt_call' = CkptCall("save", state_dict, step, Some(step), Some(state_dict))
       ELSE /\ UNCHANGED <<ckpt_dir, latest_checkpoint_path, last_saved_step>>
            /\ ckpt_call' = CkptCall("save", state_dict, step, None, SavedBy(ckpt_call))
    /\ UNCHANGED <<max_checkpoints, save_interval>>
    /\ UNCHANGED <<diag_vars, store_vars, lock_vars, agent_vars, stop_vars, tick_vars,
                   single_vars, collect_vars>>

\* save_if_needed(state_dict, step): returns whether the checkpoint was saved.
SaveIfNeeded(state_dict, step, ok) ==
    /\ IF should_save(step, last_saved_step, save_interval) /\ ok
       THEN /\ ckpt_dir' = cleanup_old_checkpoints(torch_save(ckpt_dir, state_dict, step),
                                                   max_checkpoints)
            /\ latest_checkpoint_path' = Some(step)
            /\ last_saved_step' = step
            /\ ckpt_call' = CkptCall("save_if_needed", state_dict, step, TRUE,
                                     Some(state_dict))
       ELSE /\ UNCHANGED <<ckpt_dir, latest_checkpoint_path, last_saved_step>>
            /\ ckpt_call' = CkptCall("save_if_needed", state_dict, step, FALSE,
                                     SavedBy(ckpt_call))
    /\ UNCHANGED <<max_checkpoints, save_interval>>
    /\ UNCHANGED <<diag_vars, store_vars, lock_vars, agent_vars, stop_vars, tick_vars,
                   single_vars, collect_vars>>

\* PeriodicCheckpointManager(checkpoint_dir, save_interval) on an empty directory.
InitPeriodic ==
    /\ DiagIdle
    /\ StoreIdle
    /\ LockIdle
    /\ AgentIdle
    /\ StopIdle
    /\ TickIdle
    /\ SingleIdle
    /\ CollectIdle
    /\ max_checkpoints = 5
    /\ ckpt_dir = <<>>
    /\ latest_checkpoint_path = None
    /\ save_interval \in 1..MaxInterval
    /\ last_saved_step = -1
    /\ ckpt_call = None

NextPeriodic ==
    \/ \E state_dict \in StateDicts, step \in Steps, ok \in BOOLEAN :
          SaveIfNeeded(state_dict, step, ok)
    \/ \E state_dict \in StateDicts, step \in Steps, ok \in BOOLEAN :
          PeriodicSave(state_dict, step, ok)

SpecPeriodic == InitPeriodic /\ [][NextPeriodic]_vars

\* The step the interval is counted from, as C27 has it: the step saved
\* before the call, step 0 when nothing was saved.
CountedFrom(before) == IF before = -1 THEN 0 ELSE before

\* C27 (as stated; violated): save_if_needed returns true only at a step
\* other than 0 that is at least save_interval after the step saved before,
\* counting from step 0 when nothing has been saved.
Cex_C27_SavesOnlyAfterInterval ==
    (ckpt_call # None /\ ckpt_call[1].op = "save_if_needed" /\ ckpt_call[1].ret = TRUE)
    => /\ ckpt_call[1].step # 0
       /\ ckpt_call[1].step - CountedFrom(ckpt_call[1].before) >= save_interval

\* ---------------------------------------------------------------------------
\* collect_data of the collectors, called directly (SpecCollect). The log
\* file is a sequence of lines and a position in it a number of lines.
\* ---------------------------------------------------------------------------

MaxLogLen == 2      \* the log file has at most MaxLogLen lines
MaxLines == 1       \* LogCollector(max_lines=MaxLines)

LogLines == {"a", "b"}
\* XPU_TIMER_PORT: unset, empty, a port number, not a number.
MetricPorts == {None, Some(""), Some("7"), Some("x")}

\* self._metric_endpoint: None unless the port is a non-empty string.
metric_endpoint(port) ==
    IF port = None \/ port = Some("") THEN None ELSE Some(port[1])

\* is_port_in_use(port): False when int(port) raises; listening: something
\* accepts connections on the port.
is_port_in_use(port, listening) == IsIntString(port) /\ listening

\* MetricCollector.is_enabled
metric_is_enabled(port, listening) ==
    metric_endpoint(port) # None /\ is_port_in_use(port[1], listening)

\* A string value, as the sequence of its lines ("" has none), and a dict
\* value, as the sequence of its items ({} has none).
Str(lines) == [type |-> "str", items |-> lines]
Dict(items) == [type |-> "dict", items |-> items]

\* MetricCollector.collect_data; response: what requests.get does.
metric_collect_data(port, listening, response) ==
    IF ~metric_is_enabled(port, listening) THEN Str(<<>>)
    ELSE IF response = "RequestException" THEN Str(<<>>)
    ELSE Str(<<"metrics">>)

\* LogCollector.is_enabled: the path is set and the file exists.
log_is_enabled(file) == file # None

log_read_unsought(file, position) == file[1]

\* What open/seek/read give: the lines after the position.
log_read(file, position) == PySliceFrom(file[1], Min(position, Len(file[1])))
\* f.tell() after the read: the end of the file, or the position sought when
\* that lies beyond it.
log_tell(file, position) == Max(position, Len(file[1]))

\* The lines kept: the last max_lines when there are more.
log_keep(lines, max_lines) ==
    IF Len(lines) > max_lines THEN PySliceFrom(lines, -max_lines) ELSE lines

\* LogCollector.collect_data as a value; failure: what open/read raise.
log_collect_data(file, position, max_lines, failure) ==
    IF ~log_is_enabled(file) THEN Str(<<>>)
    ELSE IF failure # "none" THEN Str(<<>>)
    ELSE Str(log_keep(log_read(file, position), max_lines))

log_last_position_reset(file, position, failure) ==
    IF ~log_is_enabled(file) \/ failure # "none" THEN 0
    ELSE log_tell(file, position)

\* self._last_position after collect_data: assigned only after a read.
log_last_position(file, position, failure) ==
    IF ~log_is_enabled(file) \/ failure # "none" THEN position
    ELSE log_tell(file, position)

\* StackCollector.collect_data: {} when disabled or when the walk raises.
stack_collect_data(enabled, failure) ==
    IF ~enabled THEN Dict(<<>>)
    ELSE IF failure # "none" THEN Dict(<<>>)
    ELSE Dict(<<"MainThread">>)

CollectCall(cls, enabled, failure, ret) ==
    Some([cls |-> cls, enabled |-> enabled, failure |-> failure, ret |-> ret,
          position |-> last_position])

\* LogCollector.collect_data(); FileNotFoundError: the file went away between
\* is_enabled() and open().
CollectLog(failure) ==
    /\ failure \in {"none", "FileNotFoundError", "Exception"}
    /\ failure # "none" => log_is_enabled(log_lines)
    /\ last_position' = log_last_position(log_lines, last_position, failure)
    /\ log_lines' = IF failure = "FileNotFoundError" THEN None ELSE log_lines
    /\ collect_call' = CollectCall("LogCollector", log_is_enabled(log_lines), failure,
                                   log_collect_data(log_lines, last_position, MaxLines,
                                                    failure))
    /\ UNCHANGED metric_port
    /\ UNCHANGED <<diag_vars, store_vars, lock_vars, agent_vars, stop_vars, tick_vars,
                   single_vars, ckpt_vars>>

\* MetricCollector.collect_data()
CollectMetric(listening, response) ==
    /\ response \in {"ok", "RequestException"}
    /\ response # "ok" => metric_is_enabled(metric_port, listening)
    /\ collect_call' = CollectCall("MetricCollector",
                                   metric_is_enabled(metric_port, listening),
                                   IF response = "ok" THEN "none" ELSE response,
                                   metric_collect_data(metric_port, listening, response))
    /\ UNCHANGED <<log_lines, last_position, metric_port>>
    /\ UNCHANGED <<diag_vars, store_vars, lock_vars, agent_vars, stop_vars, tick_vars,
                   single_vars, ckpt_vars>>

\* StackCollector.collect_data()
CollectStack(enabled, failure) ==
    /\ failure \in {"none", "Exception"}
    /\ failure # "none" => enabled
    /\ collect_call' = CollectCall("StackCollector", enabled, failure,
                                   stack_collect_data(enabled, failure))
    /\ UNCHANGED <<log_lines, last_position, metric_port>>
    /\ UNCHANGED <<diag_vars, store_vars, lock_vars, agent_vars, stop_vars, tick_vars,
                   single_vars, ckpt_vars>>

\* The training job writes a line to its log (creating the file).
LogAppend(line) ==
    /\ log_lines' = IF log_lines = None THEN Some(<<line>>)
                    ELSE Some(Append(log_lines[1], line))
    /\ Len(log_lines'[1]) <= MaxLogLen
    /\ UNCHANGED <<last_position, metric_port, collect_call>>
    /\ UNCHANGED <<diag_vars, store_vars, lock_vars, agent_vars, stop_vars, tick_vars,
                   single_vars, ckpt_vars>>

\* The log file is removed.
LogRemove ==
    /\ log_lines # None
    /\ log_lines' = None
    /\ UNCHANGED <<last_position, metric_port, collect_call>>
    /\ UNCHANGED <<diag_vars, store_vars, lock_vars, agent_vars, stop_vars, tick_vars,
                   single_vars, ckpt_vars>>

\* LogCollector(path), MetricCollector() and StackCollector() just built.
InitCollect ==
    /\ DiagIdle
    /\ StoreIdle
    /\ LockIdle
    /\ AgentIdle
    /\ StopIdle
    /\ TickIdle
    /\ SingleIdle
    /\ CkptIdle
    /\ log_lines = None
    /\ last_position = 0
    /\ metric_port \in MetricPorts
    /\ collect_call = None

NextCollect ==
    \/ \E failure \in {"none", "FileNotFoundError", "Exception"} : CollectLog(failure)
    \/ \E listening \in BOOLEAN, response \in {"ok", "RequestException"} :
          CollectMetric(listening, response)
    \/ \E enabled \in BOOLEAN, failure \in {"none", "Exception"} :
          CollectStack(enabled, failure)
    \/ \E line \in LogLines : LogAppend(line)
    \/ LogRemove

SpecCollect == InitCollect /\ [][NextCollect]_vars

\* The empty value of the collector class: "" (no line), or {}.
EmptyOf(cls) ==
    IF cls \in {"LogCollector", "MetricCollector"} THEN Str(<<>>) ELSE Dict(<<>>)
CollectStep == collect_call' # collect_call

\* C28: a collect_data call made while is_enabled() is false, or whose
\* backend fails in the expected way (log file gone or unreadable, endpoint
\* unreachable, stack walk failing), returns the empty value of the collector
\* and changes no field of it: the LogCollector's read position stays.
Thm_C28_FailedCollectIsEmpty ==
    [][(/\ collect_call' # None
        /\ CollectStep
        /\ ~collect_call'[1].enabled \/ collect_call'[1].failure # "none")
       => /\ collect_call'[1].ret = EmptyOf(collect_call'[1].cls)
          /\ last_position' = last_position
          /\ metric_port' = metric_port
      ]_vars

\* The LogCollector had read part of the file when a call found it gone.
Wit_C28_LogGoneAfterRead ==
    /\ collect_call # None
    /\ collect_call[1].cls = "LogCollector"
    /\ collect_call[1].failure = "FileNotFoundError"
    /\ collect_call[1].position > 0
    /\ last_position = collect_call[1].position

\* ---------------------------------------------------------------------------
\* diagnose_training_failure on an agent in any stage of its life (SpecAgentDiag).
\* ---------------------------------------------------------------------------

\* The restart counts asked about: the last below max_restarts, and max_restarts.
RestartCounts == {2, 3}

\* The caller registers, starts and stops the agent and asks it for a diagnosis.
NextAgentDiag ==
    \/ NextAgent
    \/ \E c \in RestartCounts : Diagnose(Some({"NODE_FAILED"}), c, max_restarts)

SpecAgentDiag == InitAgent /\ [][NextAgentDiag]_vars

DiagnoseStep == diag_call' # diag_call
\* The action type returned for the restart count of each call so far.
KindOf(restart_count) ==
    IF restart_count < max_restarts THEN RESTART_WORKER ELSE RELAUNCH_WORKER

\* C29: a diagnose_training_failure call changes nothing of the agent
\* (registry, stop flag, threads, the environment it reads), and the kind of
\* action it returns depends on the restart count alone: the same for an
\* agent that was never started, is running or was stopped.
Thm_C29_DiagnoseChangesNothing ==
    [][DiagnoseStep =>
          /\ agent_vars' = agent_vars
          /\ <<env_node_id, env_node_type>>' = <<env_node_id, env_node_type>>
          /\ diag_ret'[1].action_type = KindOf(diag_call'[1].restart_count)
      ]_vars

\* A diagnosis was asked of an agent that had been started and stopped, its
\* threads still in the list.
Wit_C29_DiagnosedAfterStop ==
    /\ diag_ret # None
    /\ diag_ret[1].action_type = RELAUNCH_WORKER
    /\ start_calls >= 1
    /\ stop_calls >= 1
    /\ stopped
    /\ collector_threads # <<>>

\* The payloads collect_data can return that are empty: None, "" and {}.
EmptyPayloads == {"None", "''", "{}"}
StoresOnlyPayload(calls) ==
    Len(calls) >= 3 => calls[2].result \notin EmptyPayloads

\* C31 (as stated; violated): in no tick is store_data called after
\* collect_data returned an empty payload (None, "" or {}).
Cex_C31_NoPublishOfEmptyPayload ==
    /\ StoresOnlyPayload(tick_calls)
    /\ \A k \in DOMAIN tick_log : StoresOnlyPayload(tick_log[k])

(***************************************************************************)
(* SpecBeat: the loops of the started agent when a heartbeat may fail.     *)
(***************************************************************************)
\* What the body of send_heartbeat does: it goes through, or it raises.
HeartbeatOutcomes == {"sent", "fails"}

send_heartbeat_propagating(outcome) == IF outcome = "fails" THEN "raised" ELSE "returned"

\* send_heartbeat: try: <body> except Exception: logger.warning(...)
send_heartbeat(outcome) == "returned"

\* _periodically_report: try: self.send_heartbeat() except Exception: ...,
\* then time.sleep(AGENT_PERIODICALLY_REPORT_INTERVAL_SECS) in either case.
periodically_report(result) == "sleep"

HeartbeatEvent(outcome, result) ==
    IF result = "raised" THEN "heartbeat_raised"
    ELSE IF outcome = "fails" THEN "heartbeat_failed" ELSE "heartbeat"

\* _periodically_report: the loop test and one send_heartbeat().
ReportBeat(r, outcome) ==
    /\ r \in DOMAIN report_pc
    /\ report_pc[r] = "loop"
    /\ IF loop_continues(stopped)
       THEN /\ report_pc' = [report_pc EXCEPT
                                ![r] = periodically_report(send_heartbeat(outcome))]
            /\ last_event' = Event("reporter", r,
                                   HeartbeatEvent(outcome, send_heartbeat(outcome)))
       ELSE /\ report_pc' = [report_pc EXCEPT ![r] = "exited"]
            /\ UNCHANGED last_event
    /\ UNCHANGED <<training_log_file, stopped, periodical_collectors, collector_threads,
                   thread_pc, report_thread, register_log, start_calls, stop_calls>>
    /\ UNCHANGED <<diag_vars, store_vars, lock_vars, ext_vars>>

BeatStep(r) == ReportWake(r) \/ \E outcome \in HeartbeatOutcomes : ReportBeat(r, outcome)

NextBeat ==
    \/ \E i \in DOMAIN StartedThreads : ThreadLoop(i)
    \/ \E i \in DOMAIN StartedThreads, outcome \in TickOutcomes : ThreadTick(i, outcome)
    \/ \E outcome \in HeartbeatOutcomes : ReportBeat(1, outcome)
    \/ ReportWake(1)
    \/ stop_calls < MaxStops /\ StopAgent

SpecBeat == InitLoop /\ [][NextBeat]_vars

\* Every sleep returns and every thread that can run is scheduled.
SpecBeatFair ==
    /\ SpecBeat
    /\ \A i \in DOMAIN StartedThreads : WF_vars(ThreadStep(i))
    /\ WF_vars(BeatStep(1))

FailedBeatStep ==
    /\ report_pc[1] = "loop"
    /\ report_pc'[1] # "loop"
    /\ last_event' # None
    /\ last_event'[1].kind = "reporter"
    /\ last_event'[1].what # "heartbeat"
    /\ ~stopped

FailedBeat ==
    /\ last_event # None
    /\ last_event[1].kind = "reporter"
    /\ last_event[1].what = "heartbeat_failed"

\* C32: a failing heartbeat does not propagate out of send_heartbeat nor out
\* of the heartbeat loop: the heartbeat thread stays alive, asleep for the
\* report interval, after which it is back at the loop test to beat again;
\* the failing step changes no polling thread's position and not the flag.
Thm_C32_HeartbeatFailureContained ==
    /\ [][FailedBeatStep =>
            /\ last_event'[1].what = "heartbeat_failed"
            /\ report_pc'[1] = "sleep"
            /\ thread_pc' = thread_pc
            /\ collector_threads' = collector_threads
            /\ periodical_collectors' = periodical_collectors
            /\ stopped' = stopped]_vars
    /\ (FailedBeat /\ report_pc[1] = "sleep") ~> (report_pc[1] = "loop")

Wit_C32_FailedBeatThenNextAttempt ==
    /\ FailedBeat
    /\ report_pc[1] = "loop"
    /\ ~stopped
    /\ \E i \in DOMAIN thread_pc : thread_pc[i] = "sleep"

(***************************************************************************)
(* SpecSpawn: start() when the thread of one collector cannot be started.  *)
(***************************************************************************)
\* The threads the loop of _start_data_collection would append if the
\* exception of item `failing` left the loop: those of the items before it.
spawn_threads_aborting(registry, failing) ==
    IF failing \in DOMAIN registry THEN SubSeq(registry, 1, failing - 1) ELSE registry

\* _start_data_collection when thread.start() raises for the item at position
\* `failing` (0: for none): the except clause is inside the for loop, so that
\* item gets no thread and the loop goes on with the next item.
spawn_threads(registry, failing) ==
    SubSeq(registry, 1, failing - 1) \o SubSeq(registry, failing + 1, Len(registry))

\* start() with the thread of item `failing` failing to start: default
\* collectors, the threads, the heartbeat thread, _stopped = False, return.
StartSpawn(failing) ==
    LET registry == setup_default_collectors(periodical_collectors, training_log_file,
                                             start_calls + 1)
        spawned == spawn_threads(registry, failing)
    IN  /\ failing \in 0..Len(registry)
        /\ periodical_collectors' = registry
        /\ collector_threads' = collector_threads \o spawned
        /\ thread_pc' = thread_pc \o [i \in DOMAIN spawned |-> "loop"]
        /\ report_pc' = Append(report_pc, "loop")
        /\ report_thread' = Some(Len(report_pc) + 1)
        /\ stopped' = FALSE
        /\ start_calls' = start_calls + 1
        /\ last_event' = Event("start", failing, "returned")
        /\ UNCHANGED <<training_log_file, register_log, stop_calls>>
        /\ UNCHANGED <<diag_vars, store_vars, lock_vars, ext_vars>>

\* The positions of the registry whose thread fails to start: none, or one
\* of the first MaxFailing items.
MaxFailing == 3

NextSpawn ==
    \/ \E c \in UserCollectors :
          Len(register_log) < MaxRegisterCalls /\ Register(c, MIN_DATA_COLLECT_INTERVAL)
    \/ \E failing \in 0..MaxFailing : start_calls < MaxStarts /\ StartSpawn(failing)
    \/ stop_calls < MaxStops /\ StopAgent

SpecSpawn == InitAgent /\ [][NextSpawn]_vars

\* The threads a step appends to the list of collector threads.
AddedThreads ==
    SubSeq(collector_threads', Len(collector_threads) + 1, Len(collector_threads'))

\* C33: when the thread of one sensor cannot be started during start(), the
\* failure stays with that sensor: it gets no thread, every other sensor of
\* the registry gets exactly one new thread at its loop test, the heartbeat
\* thread is started, the stop flag is cleared and start() returns.
Thm_C33_SpawnFailureContained ==
    [][(StartStep /\ last_event' # None /\ last_event'[1].kind = "start") =>
          LET failing == last_event'[1].index
              registry == periodical_collectors'
          IN  /\ last_event'[1].what = "returned"
              /\ \A i \in DOMAIN registry :
                    Cardinality(ThreadsOf(AddedThreads, registry[i].collector)) =
                        IF i = failing THEN 0 ELSE 1
              /\ \A i \in DOMAIN thread_pc' : i > Len(thread_pc) => thread_pc'[i] = "loop"
              /\ Len(thread_pc') = Len(collector_threads')
              /\ report_thread' = Some(Len(report_pc'))
              /\ Len(report_pc') = Len(report_pc) + 1
              /\ report_pc'[Len(report_pc')] = "loop"
              /\ stopped' = FALSE]_vars

\* start() on a registry of five collectors, the second of which got no thread.
Wit_C33_SecondOfFiveFailed ==
    /\ start_calls = 1
    /\ last_event # None
    /\ last_event[1].kind = "start"
    /\ last_event[1].index = 2
    /\ Len(periodical_collectors) = 5
    /\ Len(collector_threads) = 4
    /\ ThreadsOf(collector_threads, periodical_collectors[2].collector) = {}
    /\ report_pc = <<"loop">>
    /\ ~stopped

(***************************************************************************)
(* Claims about eviction and about a store followed by a read (SpecStore). *)
(***************************************************************************)
IsSuffix(s, t) ==
    /\ Len(s) <= Len(t)
    /\ s = SubSeq(t, Len(t) - Len(s) + 1, Len(t))

\* C34: in every reachable state the content of each partition is a
\* contiguous suffix of the sequence of metrics recorded into it since its
\* last clear: eviction takes entries from the oldest end only and never
\* reorders what remains.
Thm_C34_PartitionIsSuffixOfRecorded ==
    \A dt \in DOMAIN data_store : IsSuffix(data_store[dt], RecordedOf(dt))

\* The older of two metrics recorded into a partition was evicted.
Wit_C34_OldestEvicted ==
    \E dt \in DOMAIN data_store :
        /\ Len(RecordedOf(dt)) = 2
        /\ data_store[dt] = <<RecordedOf(dt)[2]>>
        /\ RecordedOf(dt)[1] # RecordedOf(dt)[2]

(***************************************************************************)
(* Claims about the threads after stop() has returned (SpecStop).          *)
(***************************************************************************)
\* The step is a heartbeat of reporter r.
HeartbeatStep(r) == report_pc[r] = "loop" /\ report_pc'[r] = "sleep"

\* C35 (as stated; violated): once stop() has returned, no polling thread
\* runs a tick (is_enabled, collect_data, store_data) and the heartbeat
\* thread sends no further heartbeat.
Cex_C35_QuietAfterStopReturned ==
    [][stopper.pc = "returned" =>
          /\ \A i \in DOMAIN thread_pc : ~TickStep(i)
          /\ \A r \in DOMAIN report_pc : ~HeartbeatStep(r)]_vars

(***************************************************************************)
(* SpecRace: common/utils.py, Singleton.singleton_instance statement by    *)
(* statement, called by several threads at once for one class. A thread    *)
(* holds the lock object it entered while it is at "check2" or "construct".*)
(***************************************************************************)
MaxRacers == 2
Racers == 1..MaxRacers
RaceClass == "ResourceMonitor"

Racer(pc, args, lock, ret) == [pc |-> pc, args |-> args, lock |-> lock, ret |-> ret]

\* The lock object is held by a thread inside its with block.
LockHeld(threads, lock) ==
    \E th \in DOMAIN threads :
        /\ threads[th].pc \in {"check2", "construct"}
        /\ threads[th].lock = lock

\* The call, and `if cls not in cls._instances:` outside the lock.
RaceCheck1(th, args) ==
    /\ single_threads[th].pc = "idle"
    /\ single_threads' = [single_threads EXCEPT ![th] =
           Racer(IF InstancesHas(instances, RaceClass) THEN "return" ELSE "check_lock",
                 args, 0, None)]
    /\ UNCHANGED <<instances, constructions, single_calls, instance_lock>>
    /\ UNCHANGED <<diag_vars, store_vars, lock_vars, agent_vars, stop_vars, tick_vars,
                   ckpt_vars, collect_vars>>

\* if cls not in cls._instance_lock:
RaceCheckLock(th) ==
    /\ single_threads[th].pc = "check_lock"
    /\ single_threads' = [single_threads EXCEPT ![th].pc =
           IF InstancesHas(instance_lock, RaceClass) THEN "read_lock" ELSE "make_lock"]
    /\ UNCHANGED <<instances, constructions, single_calls, instance_lock>>
    /\ UNCHANGED <<diag_vars, store_vars, lock_vars, agent_vars, stop_vars, tick_vars,
                   ckpt_vars, collect_vars>>

\* cls._instance_lock[cls] = threading.Lock(): a new lock object (named after
\* the thread that made it) replaces whatever the dict held for the class.
RaceMakeLock(th) ==
    /\ single_threads[th].pc = "make_lock"
    /\ instance_lock' = InstancesSet(instance_lock, RaceClass, th)
    /\ single_threads' = [single_threads EXCEPT ![th].pc = "read_lock"]
    /\ UNCHANGED <<instances, constructions, single_calls>>
    /\ UNCHANGED <<diag_vars, store_vars, lock_vars, agent_vars, stop_vars, tick_vars,
                   ckpt_vars, collect_vars>>

\* with cls._instance_lock[cls]: the dict is read ...
RaceReadLock(th) ==
    /\ single_threads[th].pc = "read_lock"
    /\ single_threads' = [single_threads EXCEPT
           ![th].pc = "acquire",
           ![th].lock = InstancesGet(instance_lock, RaceClass)]
    /\ UNCHANGED <<instances, constructions, single_calls, instance_lock>>
    /\ UNCHANGED <<diag_vars, store_vars, lock_vars, agent_vars, stop_vars, tick_vars,
                   ckpt_vars, collect_vars>>

\* ... and the lock object read is entered, once no thread holds it.
RaceAcquire(th) ==
    /\ single_threads[th].pc = "acquire"
    /\ ~LockHeld(single_threads, single_threads[th].lock)
    /\ single_threads' = [single_threads EXCEPT ![th].pc = "check2"]
    /\ UNCHANGED <<instances, constructions, single_calls, instance_lock>>
    /\ UNCHANGED <<diag_vars, store_vars, lock_vars, agent_vars, stop_vars, tick_vars,
                   ckpt_vars, collect_vars>>

\* if cls not in cls._instances: inside the lock; the with block is left
\* when the class has an instance.
RaceCheck2(th) ==
    /\ single_threads[th].pc = "check2"
    /\ single_threads' = [single_threads EXCEPT ![th].pc =
           IF InstancesHas(instances, RaceClass) THEN "return" ELSE "construct"]
    /\ UNCHANGED <<instances, constructions, single_calls, instance_lock>>
    /\ UNCHANGED <<diag_vars, store_vars, lock_vars, agent_vars, stop_vars, tick_vars,
                   ckpt_vars, collect_vars>>

\* cls._instances[cls] = cls(*args, **kwargs), and the with block is left.
RaceConstruct(th) ==
    LET st == Construct([instances |-> instances, constructions |-> constructions,
                         calls |-> single_calls], RaceClass, single_threads[th].args)
    IN  /\ single_threads[th].pc = "construct"
        /\ instances' = st.instances
        /\ constructions' = st.constructions
        /\ single_threads' = [single_threads EXCEPT ![th].pc = "return"]
        /\ UNCHANGED <<single_calls, instance_lock>>
        /\ UNCHANGED <<diag_vars, store_vars, lock_vars, agent_vars, stop_vars, tick_vars,
                       ckpt_vars, collect_vars>>

\* return cls._instances[cls]
RaceReturn(th) ==
    LET st == Returned([instances |-> instances, constructions |-> constructions,
                        calls |-> single_calls], RaceClass, single_threads[th].args)
    IN  /\ single_threads[th].pc = "return"
        /\ single_calls' = st.calls
        /\ single_threads' = [single_threads EXCEPT
               ![th].pc = "done",
               ![th].ret = Some(InstancesGet(instances, RaceClass))]
        /\ UNCHANGED <<instances, constructions, instance_lock>>
        /\ UNCHANGED <<diag_vars, store_vars, lock_vars, agent_vars, stop_vars, tick_vars,
                       ckpt_vars, collect_vars>>

\* No singleton exists and no lock; every thread is about to make its call.
InitRace ==
    /\ DiagIdle
    /\ StoreIdle
    /\ LockIdle
    /\ AgentIdle
    /\ StopIdle
    /\ TickIdle
    /\ CkptIdle
    /\ CollectIdle
    /\ instances = <<>>
    /\ constructions = <<>>
    /\ single_calls = <<>>
    /\ instance_lock = <<>>
    /\ single_threads = [th \in Racers |-> Racer("idle", 0, 0, None)]

NextRace ==
    \/ \E th \in Racers, args \in CtorArgs : RaceCheck1(th, args)
    \/ \E th \in Racers : RaceCheckLock(th)
    \/ \E th \in Racers : RaceMakeLock(th)
    \/ \E th \in Racers : RaceReadLock(th)
    \/ \E th \in Racers : RaceAcquire(th)
    \/ \E th \in Racers : RaceCheck2(th)
    \/ \E th \in Racers : RaceConstruct(th)
    \/ \E th \in Racers : RaceReturn(th)

SpecRace == InitRace /\ [][NextRace]_vars

\* C36 (as stated; violated): in every interleaving of concurrent first calls
\* of singleton_instance for one class the constructor runs at most once, and
\* exactly once when a call has returned, and all callers get one instance.
Cex_C36_ConstructedOnceUnderRace ==
    /\ Cardinality(ConstructionsOf(RaceClass)) <= 1
    /\ single_calls # <<>> => Cardinality(ConstructionsOf(RaceClass)) = 1
    /\ \A j, k \in DOMAIN single_calls : single_calls[j].ret = single_calls[k].ret

(***************************************************************************)
(* Claims about the read position of the LogCollector (SpecCollect).       *)
(***************************************************************************)
\* The step is a LogCollector.collect_data call that read the file.
LogReadStep ==
    /\ CollectStep
    /\ collect_call' # None
    /\ collect_call'[1].cls = "LogCollector"
    /\ collect_call'[1].enabled
    /\ collect_call'[1].failure = "none"

\* The lines of the file after position.
LinesAfter(file, position) == SubSeq(file[1], position + 1, Len(file[1]))

\* C37: over any collect_data calls of a LogCollector and appends to its
\* file, the read position never decreases; a call that reads the file
\* returns lines appended after the position the previous call reached, the
\* last max_lines of them when there are more, and leaves the position at the
\* end of the file: no line is returned by two calls.
Thm_C37_LogReadOnce ==
    [][/\ last_position' >= last_position
       /\ LogReadStep =>
             LET new == LinesAfter(log_lines, last_position)
                 ret == collect_call'[1].ret.items
             IN  /\ IsSuffix(ret, new)
                 /\ Len(ret) = Min(Len(new), MaxLines)
                 /\ last_position' = Max(last_position, Len(log_lines[1]))
                 /\ LinesAfter(log_lines', last_position') = <<>>]_vars

\* A second call returned the line appended after the first call.
Wit_C37_SecondCallReturnsNewLine ==
    /\ collect_call # None
    /\ collect_call[1].cls = "LogCollector"
    /\ collect_call[1].position = 1
    /\ collect_call[1].ret = Str(<<"b">>)
    /\ log_lines = Some(<<"a", "b">>)
    /\ last_position = 2

(***************************************************************************)
(* SpecJson: common/diagnosis_data.py, to_json and from_json. An enum      *)
(* member is its value (auto(): 1, 2, ...), a JSON text is the object that *)
(* json.loads gives back for it, with an enum written as its name.         *)
(***************************************************************************)
DiagnosisDataTypeNames ==
    <<"RESOURCE_STATS", "XPU_TIMER_METRIC", "TRAINING_LOG", "STACK_TRACE", "TRAINING_METRIC">>
DiagnosisActionTypeNames ==
    <<"NO_ACTION", "RESTART_WORKER", "RELAUNCH_WORKER", "RESTART_NODE", "STOP_JOB">>

\* member.name, and Enum[name]
EnumName(names, member) == names[member]
EnumMember(names, name) == CHOOSE member \in DOMAIN names : names[member] = name

\* The keyword parameters the __init__ of each class takes.
InitParams(class) ==
    CASE class = "DiagnosisAction" ->
             {"action_type", "node_id", "node_type", "instance", "reason", "details"}
      [] class = "NoAction" -> {}
      [] class = "NodeAction" -> {"node_id", "node_type", "instance", "action_type", "reason"}

\* An action object of the class, with the fields of DiagnosisAction.
ActionObject(class, action_type, node_id, node_type, instance, reason, details) ==
    [class |-> class, action_type |-> action_type, node_id |-> node_id,
     node_type |-> node_type, instance |-> instance, reason |-> reason,
     details |-> details]

\* The actions the callers build: DiagnosisAction(...), NoAction() and
\* NodeAction(node_id, node_type, instance, action_type, reason).
JsonDetails == {<<>>, <<[key |-> "log", value |-> "oom"]>>}
JsonActions ==
    {ActionObject("DiagnosisAction", t, n, nt, i, r, d) :
        t \in DOMAIN DiagnosisActionTypeNames, n \in {None, Some(0)},
        nt \in {None, Some("worker")}, i \in {"", LOCAL_INSTANCE}, r \in {"", "failed"},
        d \in JsonDetails}
    \cup {ActionObject("NoAction", EnumMember(DiagnosisActionTypeNames, NO_ACTION),
                       None, None, "", "", <<>>)}
    \cup {ActionObject("NodeAction", t, Some(n), Some("worker"), LOCAL_INSTANCE, r, <<>>) :
            t \in DOMAIN DiagnosisActionTypeNames, n \in {0, 1}, r \in {"", "failed"}}

\* DiagnosisAction.to_json
action_to_json(a) ==
    [action_type |-> EnumName(DiagnosisActionTypeNames, a.action_type),
     node_id |-> a.node_id, node_type |-> a.node_type, instance |-> a.instance,
     reason |-> a.reason, details |-> a.details]

\* DiagnosisAction.from_json called on class: cls(action_type=..., node_id=...,
\* node_type=..., instance=..., reason=..., details=...); a keyword the
\* __init__ of cls does not take raises TypeError.
action_from_json(class, data) ==
    IF {"action_type", "node_id", "node_type", "instance", "reason", "details"}
           \subseteq InitParams(class)
    THEN [raised |-> "",
          value |-> Some(ActionObject(class,
                                      EnumMember(DiagnosisActionTypeNames, data.action_type),
                                      data.node_id, data.node_type, data.instance,
                                      data.reason, data.details))]
    ELSE [raised |-> "TypeError", value |-> None]

MetricObject(data_type, data_content, node_id, node_type, node_rank, timestamp) ==
    [data_type |-> data_type, data_content |-> data_content, node_id |-> node_id,
     node_type |-> node_type, node_rank |-> node_rank, timestamp |-> timestamp]

JsonMetrics ==
    {MetricObject(t, c, n, nt, n, ts) :
        t \in DOMAIN DiagnosisDataTypeNames, c \in {"", "step 1"}, n \in {DefaultNodeId, 0},
        nt \in {"", "worker"}, ts \in {0, 1}}

\* WorkerTrainingMetric.to_json
metric_to_json(m) ==
    [data_type |-> EnumName(DiagnosisDataTypeNames, m.data_type),
     data_content |-> m.data_content, node_id |-> m.node_id, node_type |-> m.node_type,
     node_rank |-> m.node_rank, timestamp |-> m.timestamp]

\* WorkerTrainingMetric.from_json
metric_from_json(data) ==
    [raised |-> "",
     value |-> Some(MetricObject(EnumMember(DiagnosisDataTypeNames, data.data_type),
                                 data.data_content, data.node_id, data.node_type,
                                 data.node_rank, data.timestamp))]

\* type(a).from_json(a.to_json())
RoundTripAction(a) ==
    /\ json_call' = Some([of |-> "action", object |-> a,
                          ret |-> action_from_json(a.class, action_to_json(a))])
    /\ UNCHANGED <<env_node_id, env_node_type, diag_call, diag_ret>>
    /\ UNCHANGED <<store_vars, lock_vars, agent_vars, ext_vars>>

\* WorkerTrainingMetric.from_json(m.to_json())
RoundTripMetric(m) ==
    /\ json_call' = Some([of |-> "metric", object |-> m,
                          ret |-> metric_from_json(metric_to_json(m))])
    /\ UNCHANGED <<env_node_id, env_node_type, diag_call, diag_ret>>
    /\ UNCHANGED <<store_vars, lock_vars, agent_vars, ext_vars>>

NextJson ==
    \/ \E a \in JsonActions : RoundTripAction(a)
    \/ \E m \in JsonMetrics : RoundTripMetric(m)

SpecJson == InitDiag /\ [][NextJson]_vars

\* C38 (as stated; violated): from_json(to_json()) of a WorkerTrainingMetric
\* gives a metric with the same fields, and for every DiagnosisAction a,
\* NodeAction and NoAction included, from_json(a.to_json()) called on a's own
\* class succeeds and gives an action with the same action_type, node_id,
\* node_type, instance, reason and details.
Cex_C38_JsonRoundTrip ==
    json_call # None =>
        /\ json_call[1].ret.raised = ""
        /\ json_call[1].ret.value = Some(json_call[1].object)

NextRestart ==
    \/ \E i \in DOMAIN StartedThreads : ThreadLoop(i)
    \/ \E i \in DOMAIN StartedThreads, outcome \in TickOutcomes : ThreadTick(i, outcome)
    \/ \E r \in 1..MaxStarts : ReportLoop(r)
    \/ \E r \in 1..MaxStarts : ReportWake(r)
    \/ stop_calls < MaxStops /\ StopAgent
    \/ start_calls < MaxStarts /\ StartAgent

SpecRestart == InitLoop /\ [][NextRestart]_vars

\* The step takes a thread through its loop test into another cycle.
PassesLoopTest(pcs, next, i) == pcs[i] = "loop" /\ next[i] = "sleep"

\* C40 (as stated; violated): a loop that was running when stop() set the
\* flag goes on to exit, also when start() is called again afterwards: after
\* a stop() none of the threads of the first start() passes its loop test
\* into another cycle, so that at most one loop per role keeps running.
Cex_C40_StoppedLoopNeverResumes ==
    [][stop_calls >= 1 =>
          /\ \A i \in DOMAIN StartedThreads : ~PassesLoopTest(thread_pc, thread_pc', i)
          /\ ~PassesLoopTest(report_pc, report_pc', 1)]_vars

====
